---- MODULE Spec2Model ----
(***************************************************************************)
(* A model of the transcript sanitization / report parsing services        *)
(* (services/geminiService.ts, latest revision) and of the processing      *)
(* orchestration of App.tsx (runProcessing / stopProcessing).              *)
(*                                                                         *)
(* Strings are sequences of one-character strings.  Characters outside     *)
(* ASCII are written with an ASCII name: "a~" is a-tilde, "a'" is a-acute, *)
(* "i'" is i-acute, "A'" is capital a-acute.  A JavaScript regular         *)
(* expression is modelled by a matcher that follows its backtracking order.*)
(***************************************************************************)
EXTENDS Integers, Sequences, FiniteSets, TLC

VARIABLES
    \* loop cleaner harness
    shape, text, out1, out2, stage,
    \* sanitizeTranscript
    chunks, rawText, lines, lineNo, segments, lastSeconds, lastText, origin,
    sanStage,
    \* App: processing orchestration
    processedData, processingQueue, abortProcessingRef, runs,
    \* analyzeFactsFromEvidence
    reportData, responseText, report, reportError, reportStage, cite,
    \* parseSecondsSafe
    stampForm, stampText, parsedSeconds, parseStage,
    \* App: manual import
    manualName, manualText, isManualImportOpen, importedFiles

cleanVars == <<shape, text, out1, out2, stage>>

sanVars == <<chunks, rawText, lines, lineNo, segments, lastSeconds, lastText,
             origin, sanStage>>

appVars == <<processedData, processingQueue, abortProcessingRef, runs>>

reportVars == <<reportData, responseText, report, reportError, reportStage,
                cite>>

parseVars == <<stampForm, stampText, parsedSeconds, parseStage>>

importVars == <<manualName, manualText, isManualImportOpen, importedFiles>>

vars == <<cleanVars, sanVars, appVars, reportVars, parseVars, importVars>>

(***************************************************************************)
(* Characters                                                              *)
(***************************************************************************)
Digits == {"0", "1", "2", "3", "4", "5", "6", "7", "8", "9"}

LowerSeq == <<"a", "b", "c", "d", "e", "f", "g", "h", "i", "j", "k", "l", "m",
              "n", "o", "p", "q", "r", "s", "t", "u", "v", "w", "x", "y", "z">>

UpperSeq == <<"A", "B", "C", "D", "E", "F", "G", "H", "I", "J", "K", "L", "M",
              "N", "O", "P", "Q", "R", "S", "T", "U", "V", "W", "X", "Y", "Z">>

\* \w of a JavaScript regular expression without the u flag: [A-Za-z0-9_]
WordChars == {LowerSeq[i] : i \in 1..26} \cup {UpperSeq[i] : i \in 1..26}
             \cup Digits \cup {"_"}

IsWord(c) == c \in WordChars

\* \s
IsSpace(c) == c \in {" ", "\t", "\n", "\r"}

\* [\s,.]
IsLoopSep(c) == IsSpace(c) \/ c \in {",", "."}

\* what . does not match
IsLineTerminator(c) == c \in {"\n", "\r"}

\* String.prototype.toLowerCase, one character
ToLower(c) ==
    IF \E i \in 1..26 : UpperSeq[i] = c
    THEN LowerSeq[CHOOSE i \in 1..26 : UpperSeq[i] = c]
    ELSE IF c = "A'" THEN "a'"
    ELSE IF c = "A~" THEN "a~"
    ELSE IF c = "I'" THEN "i'" ELSE c

\* two characters equal under the i flag
EqCI(a, b) == a = b \/ ToLower(a) = ToLower(b)

\* s[at .. at+L-1] equals s[from .. from+L-1] under the i flag (a backreference)
MatchesCI(s, from, at, L) ==
    /\ at + L - 1 <= Len(s)
    /\ \A k \in 0..(L - 1) : EqCI(s[from + k], s[at + k])

\* the character at index i, "" outside the string
At(s, i) == IF i >= 1 /\ i <= Len(s) THEN s[i] ELSE ""

Min(S) == CHOOSE x \in S : \A y \in S : x <= y

Max(S) == CHOOSE x \in S : \A y \in S : x >= y

\* index after the maximal run of \w starting at i
WordRunEnd(s, i) ==
    CHOOSE j \in i..(Len(s) + 1) :
        /\ j = Len(s) + 1 \/ ~IsWord(s[j])
        /\ \A k \in i..(j - 1) : IsWord(s[k])

\* index after the maximal run of [\s,.] starting at i
SepRunEnd(s, i) ==
    CHOOSE j \in i..(Len(s) + 1) :
        /\ j = Len(s) + 1 \/ ~IsLoopSep(s[j])
        /\ \A k \in i..(j - 1) : IsLoopSep(s[k])

\* \b at index i (between s[i-1] and s[i])
AtBoundary(s, i) ==
    (i > 1 /\ i - 1 <= Len(s) /\ IsWord(s[i - 1])) # (i <= Len(s) /\ IsWord(s[i]))

(***************************************************************************)
(* cleanRepetitiveLoops                                                    *)
(***************************************************************************)
\* {3,}: the repetitions required after the first occurrence
MinExtraReps == 3
\* .{5,50}?
PhraseMin == 5
PhraseMax == 50

RECURSIVE WordReps(_, _, _, _, _)
\* (?:[\s,.]+\1\b){3,} after the word s[i .. i+L-1]; pos is the index after
\* the n repetitions matched so far.  The result is the index after the
\* match, or 0 when fewer than MinExtraReps repetitions follow.
WordReps(s, i, L, pos, n) ==
    LET j == SepRunEnd(s, pos)
    IN  IF /\ j > pos
           /\ MatchesCI(s, i, j, L)
           /\ AtBoundary(s, j + L)
        THEN WordReps(s, i, L, j + L, n + 1)
        ELSE IF n >= MinExtraReps THEN pos ELSE 0

\* /\b(\w+)(?:[\s,.]+\1\b){3,}/gi tried at index i: the index after the
\* match, or 0
WordMatchEnd(s, i) ==
    IF IsWord(s[i]) /\ AtBoundary(s, i)
    THEN LET e == WordRunEnd(s, i) IN WordReps(s, i, e - i, e, 0)
    ELSE 0

RECURSIVE WordPass(_, _)
\* text.replace(loopRegex, '$1') from index `from` on: the leftmost match is
\* replaced by its first word, and the search resumes after the match
WordPass(s, from) ==
    LET starts == {i \in from..Len(s) : WordMatchEnd(s, i) > 0}
    IN  IF starts = {} THEN SubSeq(s, from, Len(s))
        ELSE LET i == Min(starts)
             IN  SubSeq(s, from, WordRunEnd(s, i) - 1)
                     \o WordPass(s, WordMatchEnd(s, i))

RECURSIVE PhraseReps(_, _, _, _, _)
RECURSIVE PhraseTrySep(_, _, _, _, _, _)
\* (?:[\s,.]+\1){3,} after the phrase s[i .. i+L-1], greedy: one more
\* repetition is tried first, its separator run from the longest to the
\* shortest; the result is the index after the match, or 0
PhraseReps(s, i, L, pos, n) ==
    PhraseTrySep(s, i, L, pos, n, SepRunEnd(s, pos) - pos)

PhraseTrySep(s, i, L, pos, n, j) ==
    IF j < 1
    THEN IF n >= MinExtraReps THEN pos ELSE 0
    ELSE LET r == IF MatchesCI(s, i, pos + j, L)
                  THEN PhraseReps(s, i, L, pos + j + L, n + 1)
                  ELSE 0
         IN  IF r > 0 THEN r ELSE PhraseTrySep(s, i, L, pos, n, j - 1)

\* /(.{5,50}?)(?:[\s,.]+\1){3,}/gi tried at index i.  (.{5,50}?) is lazy: the
\* shortest phrase that is followed by its repetitions.  <<L, e>>: the phrase
\* length and the index after the match, or <<0, 0>>
PhraseMatchAt(s, i) ==
    LET lens == {L \in PhraseMin..PhraseMax :
                    /\ i + L - 1 <= Len(s)
                    /\ IsLoopSep(At(s, i + L))
                    /\ PhraseReps(s, i, L, i + L, 0) > 0
                    /\ \A k \in 0..(L - 1) : ~IsLineTerminator(s[i + k])}
    IN  IF lens = {} THEN <<0, 0>>
        ELSE <<Min(lens), PhraseReps(s, i, Min(lens), i + Min(lens), 0)>>

RECURSIVE PhrasePass(_, _)
\* cleaned.replace(phraseLoopRegex, '$1') from index `from` on
PhrasePass(s, from) ==
    LET starts == {i \in from..Len(s) : PhraseMatchAt(s, i)[2] > 0}
    IN  IF starts = {} THEN SubSeq(s, from, Len(s))
        ELSE LET i == Min(starts)
                 m == PhraseMatchAt(s, i)
             IN  SubSeq(s, from, i + m[1] - 1) \o PhrasePass(s, m[2])

cleanRepetitiveLoops(t) ==
    IF t = <<>> THEN <<>> ELSE PhrasePass(WordPass(t, 1), 1)

(***************************************************************************)
(* sanitizeTranscript: normalization                                       *)
(***************************************************************************)
IsDigit(c) == c \in Digits

\* index after the maximal run of \s starting at i
SpaceRunEnd(s, i) ==
    CHOOSE j \in i..(Len(s) + 1) :
        /\ j = Len(s) + 1 \/ ~IsSpace(s[j])
        /\ \A k \in i..(j - 1) : IsSpace(s[k])

\* index after the maximal run of \d starting at i
DigitRunEnd(s, i) ==
    CHOOSE j \in i..(Len(s) + 1) :
        /\ j = Len(s) + 1 \/ ~IsDigit(s[j])
        /\ \A k \in i..(j - 1) : IsDigit(s[k])

\* \d{1,2}: at index i: the index of the colon, or 0
Digits12Colon(s, i) ==
    IF IsDigit(At(s, i)) /\ At(s, i + 1) = ":" THEN i + 1
    ELSE IF IsDigit(At(s, i)) /\ IsDigit(At(s, i + 1)) /\ At(s, i + 2) = ":"
         THEN i + 2
         ELSE 0

\* \d{2} at index i
TwoDigits(s, i) == IsDigit(At(s, i)) /\ IsDigit(At(s, i + 1))

\* \[\d{1,2}:\d{2}(?::\d{2})?\] at index i: the index after it, or 0
BracketTimeEnd(s, i) ==
    IF At(s, i) # "[" THEN 0
    ELSE LET c == Digits12Colon(s, i + 1)
         IN  IF c = 0 \/ ~TwoDigits(s, c + 1) THEN 0
             ELSE IF At(s, c + 3) = ":" /\ TwoDigits(s, c + 4) /\ At(s, c + 6) = "]"
                  THEN c + 7
                  ELSE IF At(s, c + 3) = "]" THEN c + 4 ELSE 0

\* \d{1,2}:\d{2}:\d{2} at index i: the index after it, or 0
HmsEnd(s, i) ==
    LET c == Digits12Colon(s, i)
    IN  IF c > 0 /\ TwoDigits(s, c + 1) /\ At(s, c + 3) = ":" /\ TwoDigits(s, c + 4)
        THEN c + 6
        ELSE 0

\* \[P[áa]g at index i (no i flag): the index after it, or 0
PageTagEnd(s, i) ==
    IF At(s, i) = "[" /\ At(s, i + 1) = "P" /\ At(s, i + 2) \in {"a'", "a"}
          /\ At(s, i + 3) = "g"
    THEN i + 4
    ELSE 0

\* the marker of the k-th normalization pattern at index i
MarkerEndOf(k, s, i) ==
    IF k = 1 THEN BracketTimeEnd(s, i)
    ELSE IF k = 2 THEN HmsEnd(s, i)
    ELSE PageTagEnd(s, i)

\* the k-th pattern, ([^\n])\s*(marker) (\s+ for the second), tried at index
\* i: <<index of the marker, index after it>>, or <<0, 0>>
BreakMatch(k, s, i) ==
    IF s[i] = "\n" \/ i = Len(s) THEN <<0, 0>>
    ELSE LET j == SpaceRunEnd(s, i + 1)
             e == MarkerEndOf(k, s, j)
         IN  IF e > 0 /\ (k = 2 => j > i + 1) THEN <<j, e>> ELSE <<0, 0>>

RECURSIVE BreakPass(_, _, _)
\* .replace(k-th pattern, '$1\n$2') from index `from` on
BreakPass(k, s, from) ==
    LET starts == {i \in from..Len(s) : BreakMatch(k, s, i)[2] > 0}
    IN  IF starts = {} THEN SubSeq(s, from, Len(s))
        ELSE LET i == Min(starts)
                 m == BreakMatch(k, s, i)
             IN  SubSeq(s, from, i) \o <<"\n">> \o SubSeq(s, m[1], m[2] - 1)
                     \o BreakPass(k, s, m[2])

\* /(\n\s*){2,}/ tried at index i: the index after the match, or 0
BlankRunEnd(s, i) ==
    IF s[i] # "\n" THEN 0
    ELSE LET e == SpaceRunEnd(s, i)
         IN  IF Cardinality({j \in i..(e - 1) : s[j] = "\n"}) >= 2 THEN e ELSE 0

RECURSIVE CollapsePass(_, _)
\* .replace(/(\n\s*){2,}/g, '\n') from index `from` on
CollapsePass(s, from) ==
    LET starts == {i \in from..Len(s) : BlankRunEnd(s, i) > 0}
    IN  IF starts = {} THEN SubSeq(s, from, Len(s))
        ELSE LET i == Min(starts)
             IN  SubSeq(s, from, i - 1) \o <<"\n">>
                     \o CollapsePass(s, BlankRunEnd(s, i))

\* formattedText
formattedText(raw) ==
    CollapsePass(BreakPass(3, BreakPass(2, BreakPass(1, raw, 1), 1), 1), 1)

RECURSIVE SplitLines(_, _)
\* .split('\n') from index `from` on
SplitLines(s, from) ==
    LET nl == {i \in from..Len(s) : s[i] = "\n"}
    IN  IF nl = {} THEN <<SubSeq(s, from, Len(s))>>
        ELSE <<SubSeq(s, from, Min(nl) - 1)>> \o SplitLines(s, Min(nl) + 1)

\* String.prototype.trim
Trim(s) ==
    LET ns == {i \in 1..Len(s) : ~IsSpace(s[i])}
    IN  IF ns = {} THEN <<>> ELSE SubSeq(s, Min(ns), Max(ns))

(***************************************************************************)
(* sanitizeTranscript: timestampRegex                                      *)
(***************************************************************************)
DigitSeq == <<"0", "1", "2", "3", "4", "5", "6", "7", "8", "9">>

DigitVal(c) == (CHOOSE n \in 1..10 : DigitSeq[n] = c) - 1

RECURSIVE ParseInt(_, _, _)
\* parseInt of the digits s[i .. j-1]
ParseInt(s, i, j) ==
    IF j <= i THEN 0 ELSE ParseInt(s, i, j - 1) * 10 + DigitVal(s[j - 1])

\* [\s\*\-\.\(\[]
IsStampPrefix(c) == IsSpace(c) \/ c \in {"*", "-", ".", "(", "["}

\* index after the maximal run of [\*\-\)] starting at i
StarRunEnd(s, i) ==
    CHOOSE j \in i..(Len(s) + 1) :
        /\ j = Len(s) + 1 \/ s[j] \notin {"*", "-", ")"}
        /\ \A k \in i..(j - 1) : s[k] \in {"*", "-", ")"}

\* (?:\]|\)|:)?[\*\-\)]*\s+ at index q: the index where (.*) begins, or 0
StampTail(s, q) ==
    LET a == IF At(s, q) \in {"]", ")", ":"} THEN q + 1 ELSE q
        e == StarRunEnd(s, a)
        w == SpaceRunEnd(s, e)
    IN  IF w > e THEN w ELSE 0

\* (.*) from index w: up to the end of the line
RestOfLine(s, w) ==
    LET ends == {j \in w..Len(s) : IsLineTerminator(s[j])}
    IN  SubSeq(s, w, IF ends = {} THEN Len(s) ELSE Min(ends) - 1)

NoMatch ==
    [ok |-> FALSE, time |-> FALSE, hours |-> 0, minutes |-> 0,
     secondsPart |-> 0, pageNum |-> 0, rest |-> <<>>]

\* (\d{1,2}):(\d{1,2}):(\d{2}) and the tail at index b
StampHms(s, b) ==
    LET c1 == Digits12Colon(s, b)
        c2 == IF c1 > 0 THEN Digits12Colon(s, c1 + 1) ELSE 0
        w  == IF c2 > 0 /\ TwoDigits(s, c2 + 1) THEN StampTail(s, c2 + 3) ELSE 0
    IN  IF w = 0 THEN NoMatch
        ELSE [ok |-> TRUE, time |-> TRUE, hours |-> ParseInt(s, b, c1),
              minutes |-> ParseInt(s, c1 + 1, c2),
              secondsPart |-> ParseInt(s, c2 + 1, c2 + 3),
              pageNum |-> 0, rest |-> RestOfLine(s, w)]

\* (\d{1,2}):(\d{2}) and the tail at index b
StampMs(s, b) ==
    LET c1 == Digits12Colon(s, b)
        w  == IF c1 > 0 /\ TwoDigits(s, c1 + 1) THEN StampTail(s, c1 + 3) ELSE 0
    IN  IF w = 0 THEN NoMatch
        ELSE [ok |-> TRUE, time |-> TRUE, hours |-> 0,
              minutes |-> ParseInt(s, b, c1),
              secondsPart |-> ParseInt(s, c1 + 1, c1 + 3),
              pageNum |-> 0, rest |-> RestOfLine(s, w)]

\* \s*(\d+) and the tail at index d
StampNumber(s, d) ==
    LET n == SpaceRunEnd(s, d)
        e == DigitRunEnd(s, n)
        w == IF e > n THEN StampTail(s, e) ELSE 0
    IN  IF w = 0 THEN NoMatch
        ELSE [ok |-> TRUE, time |-> FALSE, hours |-> 0, minutes |-> 0,
              secondsPart |-> 0, pageNum |-> ParseInt(s, n, e),
              rest |-> RestOfLine(s, w)]

\* P[áa]g\.?\s*(\d+) and the tail at index b, under the i flag
StampPag(s, b) ==
    IF /\ EqCI(At(s, b), "p")
       /\ ToLower(At(s, b + 1)) \in {"a'", "a"}
       /\ EqCI(At(s, b + 2), "g")
    THEN StampNumber(s, IF At(s, b + 3) = "." THEN b + 4 ELSE b + 3)
    ELSE NoMatch

\* Page\s*(\d+) and the tail at index b, under the i flag
StampPage(s, b) ==
    IF /\ EqCI(At(s, b), "p") /\ EqCI(At(s, b + 1), "a")
       /\ EqCI(At(s, b + 2), "g") /\ EqCI(At(s, b + 3), "e")
    THEN StampNumber(s, b + 4)
    ELSE NoMatch

\* the alternatives in the order the regular expression tries them
StampAt(s, b) ==
    IF StampHms(s, b).ok THEN StampHms(s, b)
    ELSE IF StampMs(s, b).ok THEN StampMs(s, b)
    ELSE IF StampPag(s, b).ok THEN StampPag(s, b)
    ELSE StampPage(s, b)

\* line.match(timestampRegex): the leftmost match; the marker begins the
\* line or follows one character of [\s\*\-\.\(\[]
timestampRegex(line) ==
    LET bs == {b \in 1..Len(line) :
                  /\ b = 1 \/ IsStampPrefix(line[b - 1])
                  /\ StampAt(line, b).ok}
    IN  IF bs = {} THEN NoMatch ELSE StampAt(line, Min(bs))

RECURSIVE Decimal(_)
\* Number.prototype.toString
Decimal(n) ==
    IF n < 10 THEN <<DigitSeq[n + 1]>>
    ELSE Decimal(n \div 10) \o <<DigitSeq[(n % 10) + 1]>>

\* n.toString().padStart(2, '0')
Pad2(n) == IF n < 10 THEN <<"0">> \o Decimal(n) ELSE Decimal(n)

\* metricValue
metricValue(m) ==
    IF m.time THEN (m.hours * 3600) + (m.minutes * 60) + m.secondsPart
    ELSE m.pageNum

\* displayTimestamp without the branch for hours > 0: always MM:SS
displayTimestampMinutes(m) ==
    IF m.time
    THEN Pad2(m.minutes) \o <<":">> \o Pad2(m.secondsPart)
    ELSE <<"P", "a'", "g", " ">> \o Decimal(m.pageNum)

\* displayTimestamp
displayTimestamp(m) ==
    IF m.time
    THEN IF m.hours > 0
         THEN Pad2(m.hours) \o <<":">> \o Pad2(m.minutes) \o <<":">>
                  \o Pad2(m.secondsPart)
         ELSE Pad2(m.minutes) \o <<":">> \o Pad2(m.secondsPart)
    ELSE <<"P", "a'", "g", " ">> \o Decimal(m.pageNum)

\* haystack.toLowerCase().includes(needle), needle in lower case
IncludesLower(haystack, needle) ==
    \E i \in 1..(Len(haystack) - Len(needle) + 1) :
        \A k \in 1..Len(needle) : ToLower(haystack[i + k - 1]) = needle[k]

subtitlesBy == <<"s", "u", "b", "t", "i", "t", "l", "e", "s", " ", "b", "y">>

inaudivel == <<"i", "n", "a", "u", "d", "i'", "v", "e", "l">>

\* haystack.includes(needle): the letter case of the text kept
IncludesExact(haystack, needle) ==
    \E i \in 1..(Len(haystack) - Len(needle) + 1) :
        \A k \in 1..Len(needle) : haystack[i + k - 1] = needle[k]

\* the hallucination check without toLowerCase
IsHallucinationCaseSensitive(t) ==
    IncludesExact(t, subtitlesBy) \/ IncludesExact(t, inaudivel)

\* the hallucination check
IsHallucination(t) ==
    IncludesLower(t, subtitlesBy) \/ IncludesLower(t, inaudivel)

\* cleanLine.startsWith('[')
StartsWithBracket(s) == Len(s) > 0 /\ s[1] = "["

(***************************************************************************)
(* sanitizeTranscript: the loop over the lines                             *)
(***************************************************************************)
\* segments.unshift(seg): the new segment put first
UnshiftSegment(segs, seg) == <<seg>> \o segs

\* segments.push(seg)
PushSegment(segs, seg) == Append(segs, seg)

\* the loop body with the duplicate test made against the text the last
\* segment holds now: text === segments[segments.length - 1].text
MarkerStepCurrentText(st, m) ==
    LET t0 == Trim(m.rest)
        t  == cleanRepetitiveLoops(t0)
    IN  IF IsHallucination(t0) THEN st
        ELSE IF Len(st.segments) > 0 /\ t = st.segments[Len(st.segments)].text
             THEN st
        ELSE IF Len(t) > 0
             THEN [segments |-> PushSegment(st.segments,
                                    [timestamp |-> displayTimestamp(m),
                                     seconds |-> metricValue(m),
                                     text |-> t]),
                   lastSeconds |-> metricValue(m),
                   lastText |-> t]
             ELSE st

\* the loop body for a line that matches timestampRegex; st holds segments,
\* lastSeconds and lastText, m is the match
MarkerStep(st, m) ==
    LET t0 == Trim(m.rest)
        t  == cleanRepetitiveLoops(t0)
    IN  IF IsHallucination(t0) THEN st
        ELSE IF t = st.lastText THEN st
        ELSE IF Len(t) > 0
             THEN [segments |-> PushSegment(st.segments,
                                    [timestamp |-> displayTimestamp(m),
                                     seconds |-> metricValue(m),
                                     text |-> t]),
                   lastSeconds |-> metricValue(m),
                   lastText |-> t]
             ELSE st

\* segments[0].text += " " + cleanLine: the first segment extended
AppendToFirst(segs, cleanLine) ==
    [segs EXCEPT ![1].text = @ \o <<" ">> \o cleanLine]

\* segments[segments.length - 1].text += " " + cleanLine
AppendToLast(segs, cleanLine) ==
    [segs EXCEPT ![Len(segs)].text = @ \o <<" ">> \o cleanLine]

\* segments.push(...) of the line itself: a line without a marker made a
\* segment
ContinuationAsSegment(st, line) ==
    IF Len(Trim(line)) > 0
    THEN [st EXCEPT !.segments =
             Append(@, [timestamp |-> <<>>, seconds |-> 0, text |-> Trim(line)])]
    ELSE st

\* the loop body for a line that does not match timestampRegex
ContinuationStep(st, line) ==
    IF Len(st.segments) > 0 /\ Len(Trim(line)) > 0
    THEN LET cleanLine == cleanRepetitiveLoops(Trim(line))
         IN  IF ~StartsWithBracket(cleanLine) /\ Len(cleanLine) > 1
             THEN [st EXCEPT !.segments = AppendToLast(st.segments, cleanLine)]
             ELSE st
    ELSE st

RECURSIVE SegmentsOfLines(_, _)
\* the for loop over the lines ls[1..n]: segments, lastSeconds and lastText
\* after them
SegmentsOfLines(ls, n) ==
    IF n = 0
    THEN [segments |-> <<>>, lastSeconds |-> -1, lastText |-> <<>>]
    ELSE LET st == SegmentsOfLines(ls, n - 1)
         IN  IF Len(Trim(ls[n])) < 2 THEN st
             ELSE IF timestampRegex(ls[n]).ok
                  THEN MarkerStep(st, timestampRegex(ls[n]))
                  ELSE ContinuationStep(st, ls[n])

\* sanitizeTranscript(rawText) as its callers see it: the segments returned
sanitizeTranscript(raw) ==
    LET ls == SplitLines(formattedText(raw), 1)
    IN  SegmentsOfLines(ls, Len(ls)).segments

(***************************************************************************)
(* processFile: from the response text to the ProcessedContent             *)
(***************************************************************************)
\* index after the maximal run of [a-z] starting at i
LowerRunEnd(s, i) ==
    CHOOSE j \in i..(Len(s) + 1) :
        /\ j = Len(s) + 1 \/ s[j] \notin {LowerSeq[k] : k \in 1..26}
        /\ \A k \in i..(j - 1) : s[k] \in {LowerSeq[n] : n \in 1..26}

\* three backquotes (each written "bq") that begin a line: the ^ of the two
\* fence expressions under the m flag
FenceAt(s, i) ==
    /\ i = 1 \/ IsLineTerminator(s[i - 1])
    /\ At(s, i) = "bq" /\ At(s, i + 1) = "bq" /\ At(s, i + 2) = "bq"

RECURSIVE OpenFencePass(_, _)
\* .replace(/^bq bq bq[a-z]*\n/gm, '') from index "from" on
OpenFencePass(s, from) ==
    IF from > Len(s) THEN <<>>
    ELSE IF FenceAt(s, from) /\ At(s, LowerRunEnd(s, from + 3)) = "\n"
         THEN OpenFencePass(s, LowerRunEnd(s, from + 3) + 1)
         ELSE <<s[from]>> \o OpenFencePass(s, from + 1)

RECURSIVE FencePass(_, _)
\* .replace(/^bq bq bq/gm, '') from index "from" on
FencePass(s, from) ==
    IF from > Len(s) THEN <<>>
    ELSE IF FenceAt(s, from) THEN FencePass(s, from + 3)
         ELSE <<s[from]>> \o FencePass(s, from + 1)

\* the cleanup of the response text
StripFences(raw) == FencePass(OpenFencePass(raw, 1), 1)

\* the index where /\n\s*\n/ tried at i ends, or 0: \s* takes the longest
\* run of white space that a newline closes
ParagraphBreakEnd(s, i) ==
    LET js == {j \in (i + 1)..(SpaceRunEnd(s, i + 1) - 1) : s[j] = "\n"}
    IN  IF At(s, i) = "\n" /\ js # {} THEN Max(js) ELSE 0

RECURSIVE SplitParagraphs(_, _)
\* rawText.split(/\n\s*\n/) from index "from" on
SplitParagraphs(s, from) ==
    LET starts == {i \in from..Len(s) : ParagraphBreakEnd(s, i) > 0}
    IN  IF starts = {} THEN <<SubSeq(s, from, Len(s))>>
        ELSE <<SubSeq(s, from, Min(starts) - 1)>>
                 \o SplitParagraphs(s, ParagraphBreakEnd(s, Min(starts)) + 1)

parte == <<"P", "a", "r", "t", "e", " ">>

RECURSIVE FallbackSegments(_, _, _)
\* paragraphs.forEach((p, idx) => ...): the segments of the paragraphs
\* ps[1..n] that are not blank
FallbackSegments(ps, n, type) ==
    IF n = 0 THEN <<>>
    ELSE FallbackSegments(ps, n - 1, type)
             \o (IF Trim(ps[n]) # <<>>
                 THEN << [timestamp |-> IF type = "AUDIO"
                                        THEN <<"0", "0", ":", "0", "0">>
                                        ELSE parte \o Decimal(n),
                          seconds |-> n - 1,
                          text |-> Trim(ps[n])] >>
                 ELSE <<>>)

RECURSIVE FullTextOf(_, _)
\* segments.map(s => "[" + s.timestamp + "] " + s.text).join('\n')
FullTextOf(segs, n) ==
    IF n = 0 THEN <<>>
    ELSE (IF n = 1 THEN <<>> ELSE FullTextOf(segs, n - 1) \o <<"\n">>)
             \o <<"[">> \o segs[n].timestamp \o <<"]", " ">> \o segs[n].text

\* a ProcessedContent
ProcessedContentOf(id, name, segs) ==
    [fileId |-> id, fileName |-> name, fullText |-> FullTextOf(segs, Len(segs)),
     segments |-> segs]

\* processFile(apiKey, evidenceFile) when generateContent answers with
\* responseTxt: [ok |-> FALSE] when it throws, else the content returned
processFile(evidenceFile, responseTxt) ==
    IF evidenceFile.isVirtual \/ Trim(responseTxt) = <<>>
    THEN [ok |-> FALSE]
    ELSE LET raw == StripFences(responseTxt)
             segs == sanitizeTranscript(raw)
             paragraphs == SplitParagraphs(raw, 1)
         IN  [ok |-> TRUE,
              content |->
                  ProcessedContentOf(evidenceFile.id, evidenceFile.name,
                      IF Len(segs) = 0 /\ Len(Trim(raw)) > 0
                      THEN FallbackSegments(paragraphs, Len(paragraphs),
                                            evidenceFile.type)
                      ELSE segs)]

(***************************************************************************)
(* parseSecondsSafe                                                        *)
(***************************************************************************)
\* NaN, the value of Number(x) for an x that is not a numeral
NaN == -1

\* haystack.includes(needle)
Includes(haystack, needle) ==
    \E i \in 1..(Len(haystack) - Len(needle) + 1) :
        \A k \in 1..Len(needle) : haystack[i + k - 1] = needle[k]

\* String.prototype.toLowerCase
LowerStr(s) == [i \in 1..Len(s) |-> ToLower(s[i])]

\* the index of the first occurrence of sub in s at or after `from`, or 0
IndexOf(s, sub, from) ==
    LET at == {i \in from..(Len(s) - Len(sub) + 1) :
                  \A k \in 1..Len(sub) : s[i + k - 1] = sub[k]}
    IN  IF at = {} THEN 0 ELSE Min(at)

RECURSIVE SplitOn(_, _, _)
\* s.split(sep) from index `from` on
SplitOn(s, sep, from) ==
    LET i == IndexOf(s, sep, from)
    IN  IF i = 0 THEN <<SubSeq(s, from, Len(s))>>
        ELSE <<SubSeq(s, from, i - 1)>> \o SplitOn(s, sep, i + Len(sep))

\* Number(x) for x made of digits, letters and spaces: the value of a
\* decimal numeral, 0 for a blank string, NaN otherwise
NumberOf(x) ==
    LET t == Trim(x)
    IN  IF \A i \in 1..Len(t) : IsDigit(t[i]) THEN ParseInt(t, 1, Len(t) + 1)
        ELSE NaN

\* timestamp.match(/\d+/): parseInt of the first run of digits, or 0
FirstNumber(ts) ==
    LET ds == {i \in 1..Len(ts) : IsDigit(ts[i])}
    IN  IF ds = {} THEN 0 ELSE ParseInt(ts, Min(ds), DigitRunEnd(ts, Min(ds)))

\* minutes and seconds read from the first two parts only, whatever follows
parseMinutesSeconds(ts) ==
    LET parts == SplitOn(ts, <<":">>, 1)
    IN  IF Len(parts) >= 2 /\ NumberOf(parts[1]) # NaN /\ NumberOf(parts[2]) # NaN
        THEN (NumberOf(parts[1]) * 60) + NumberOf(parts[2])
        ELSE FirstNumber(ts)

parseSecondsSafe(ts) ==
    LET parts == SplitOn(ts, <<":">>, 1)
        n == [i \in 1..Len(parts) |-> NumberOf(parts[i])]
    IN  IF Includes(ts, <<":">>) /\ Len(parts) = 3
        THEN IF NaN \in {n[1], n[2], n[3]} THEN NaN
             ELSE (n[1] * 3600) + (n[2] * 60) + n[3]
        ELSE IF Includes(ts, <<":">>) /\ Len(parts) = 2
             THEN IF NaN \in {n[1], n[2]} THEN NaN ELSE (n[1] * 60) + n[2]
             ELSE FirstNumber(ts)

(***************************************************************************)
(* analyzeFactsFromEvidence: the parsing of the response                   *)
(***************************************************************************)
FACT == <<"[", "[", "F", "A", "C", "T", "]", "]">>

STATUS == <<"[", "[", "S", "T", "A", "T", "U", "S", "]", "]">>

END_STATUS == <<"[", "[", "E", "N", "D", "_", "S", "T", "A", "T", "U", "S", "]", "]">>

SUMMARY == <<"[", "[", "S", "U", "M", "M", "A", "R", "Y", "]", "]">>

END_SUMMARY == <<"[", "[", "E", "N", "D", "_", "S", "U", "M", "M", "A", "R", "Y",
      "]", "]">>

EVIDENCES == <<"[", "[", "E", "V", "I", "D", "E", "N", "C", "E", "S", "]", "]">>

END_EVIDENCES == <<"[", "[", "E", "N", "D", "_", "E", "V", "I", "D", "E", "N", "C",
      "E", "S", "]", "]">>

CONCLUSION == <<"[", "[", "C", "O", "N", "C", "L", "U", "S", "I", "O", "N", "]", "]">>

END_CONCLUSION == <<"[", "[", "E", "N", "D", "_", "C", "O", "N", "C", "L", "U", "S",
      "I", "O", "N", "]", "]">>

\* enum FactStatus
CONFIRMED == <<"C", "o", "n", "f", "i", "r", "m", "a", "d", "o">>

DENIED == <<"D", "e", "s", "m", "e", "n", "t", "i", "d", "o">>

INCONCLUSIVE == <<"I", "n", "c", "o", "n", "c", "l", "u", "s", "i", "v", "o", "/",
      "C", "o", "n", "t", "r", "a", "d", "i", "t", "o'", "r", "i", "o">>

NOT_MENTIONED == <<"N", "a~", "o", " ", "M", "e", "n", "c", "i", "o", "n", "a", "d",
      "o">>

FactStatus == {CONFIRMED, DENIED, INCONCLUSIVE, NOT_MENTIONED}

analiseConcluida == <<"A", "n", "a'", "l", "i", "s", "e", " ", "c", "o", "n", "c", "l",
      "u", "i'", "d", "a", ".">>

semResumo == <<"S", "e", "m", " ", "r", "e", "s", "u", "m", "o", " ", "d", "i",
      "s", "p", "o", "n", "i'", "v", "e", "l", ".">>

textoIndisponivel == <<"T", "e", "x", "t", "o", " ", "i", "n", "d", "i", "s", "p", "o",
      "n", "i'", "v", "e", "l">>

desconhecido == <<"D", "e", "s", "c", "o", "n", "h", "e", "c", "i", "d", "o">>

\* s.match(/open([\s\S]*?)close/): the text between the first `open` and the
\* first `close` after it
Between(s, open, close) ==
    LET p == IndexOf(s, open, 1)
        q == IF p = 0 THEN 0 ELSE IndexOf(s, close, p + Len(open))
    IN  IF q = 0 THEN [ok |-> FALSE, val |-> <<>>]
        ELSE [ok |-> TRUE, val |-> SubSeq(s, p + Len(open), q - 1)]

\* (.*?)(\n|\[) from index q: the index of the closing newline or bracket,
\* or 0 when the line or the text ends first
IdEnd(s, q) ==
    LET stops == {j \in q..Len(s) : s[j] \in {"\n", "[", "\r"}}
    IN  IF stops = {} \/ s[Min(stops)] = "\r" THEN 0 ELSE Min(stops)

\* /ID:\s*(.*?)(\n|\[)/ tried at index p: \s* from the longest to the
\* shortest; <<start of the group, index after it>>, or <<0, 0>>
IdMatchAt(s, p) ==
    IF ~(At(s, p) = "I" /\ At(s, p + 1) = "D" /\ At(s, p + 2) = ":")
    THEN <<0, 0>>
    ELSE LET qs == {q \in (p + 3)..SpaceRunEnd(s, p + 3) : IdEnd(s, q) > 0}
         IN  IF qs = {} THEN <<0, 0>> ELSE <<Max(qs), IdEnd(s, Max(qs))>>

\* factId
factIdOf(block) ==
    LET ps == {p \in 1..Len(block) : IdMatchAt(block, p)[1] > 0}
    IN  IF ps = {} THEN <<>>
        ELSE LET m == IdMatchAt(block, Min(ps))
             IN  Trim(SubSeq(block, m[1], m[2] - 1))

\* status
statusOf(block) ==
    LET statusMatch == Between(block, STATUS, END_STATUS)
    IN  IF statusMatch.ok THEN Trim(statusMatch.val) ELSE INCONCLUSIVE

\* summaryText
summaryOf(block) ==
    LET summaryMatch == Between(block, SUMMARY, END_SUMMARY)
    IN  IF summaryMatch.ok THEN Trim(summaryMatch.val) ELSE semResumo

\* evidencesContent
evidencesOf(block) == Between(block, EVIDENCES, END_EVIDENCES).val

(***************************************************************************)
(* analyzeFactsFromEvidence: citations                                     *)
(***************************************************************************)
\* the index of the first line terminator at or after i, Len(s) + 1 if none
LineEnd(s, i) ==
    LET ends == {j \in i..Len(s) : IsLineTerminator(s[j])}
    IN  IF ends = {} THEN Len(s) + 1 ELSE Min(ends)

\* \s*(.*?)\s*\] from index b0, after the @: <<start of the group, end of
\* the group, index after the match>>, or <<0, 0, 0>>
CiteTail(s, b0) ==
    LET b == SpaceRunEnd(s, b0)
        es == {e \in b..LineEnd(s, b) : At(s, SpaceRunEnd(s, e)) = "]"}
    IN  IF es = {} THEN <<0, 0, 0>>
        ELSE <<b, Min(es), SpaceRunEnd(s, Min(es)) + 1>>

\* /\[\s*(.*?)\s*@\s*(.*?)\s*\]/ tried at index i; both groups are lazy and
\* stay on one line.  [ok, ref, stamps, next]: the two groups and the index
\* after the match
CiteMatchAt(s, i) ==
    IF At(s, i) # "["
    THEN [ok |-> FALSE, ref |-> <<>>, stamps |-> <<>>, next |-> 0]
    ELSE LET a == SpaceRunEnd(s, i + 1)
             es == {e \in a..LineEnd(s, a) :
                       /\ At(s, SpaceRunEnd(s, e)) = "@"
                       /\ CiteTail(s, SpaceRunEnd(s, e) + 1)[3] > 0}
         IN  IF es = {}
             THEN [ok |-> FALSE, ref |-> <<>>, stamps |-> <<>>, next |-> 0]
             ELSE LET e == Min(es)
                      t == CiteTail(s, SpaceRunEnd(s, e) + 1)
                  IN  [ok |-> TRUE,
                       ref |-> SubSeq(s, a, e - 1),
                       stamps |-> SubSeq(s, t[1], t[2] - 1),
                       next |-> t[3]]

RECURSIVE CiteMatches(_, _)
\* the matches citationRegex.exec finds, from index `from` on
CiteMatches(s, from) ==
    LET starts == {i \in from..Len(s) : CiteMatchAt(s, i).ok}
    IN  IF starts = {} THEN <<>>
        ELSE LET m == CiteMatchAt(s, Min(starts))
             IN  <<m>> \o CiteMatches(s, m.next)

\* the last source whose name matches, not the first
FindLastSource(pd, fileNameRef) ==
    LET hits == {i \in 1..Len(pd) :
                    \/ Includes(LowerStr(pd[i].fileName), LowerStr(fileNameRef))
                    \/ Includes(LowerStr(fileNameRef), LowerStr(pd[i].fileName))}
    IN  IF hits = {} THEN 0 ELSE Max(hits)

\* processedData.find(d => the names contain one another, ignoring case):
\* the index of the source, or 0
FindSource(pd, fileNameRef) ==
    LET hits == {i \in 1..Len(pd) :
                    \/ Includes(LowerStr(pd[i].fileName), LowerStr(fileNameRef))
                    \/ Includes(LowerStr(fileNameRef), LowerStr(pd[i].fileName))}
    IN  IF hits = {} THEN 0 ELSE Min(hits)

\* fileMeta?.category !== 'TESTIMONY'
isDocument(fileMetadata, fileId) ==
    ~\E i \in 1..Len(fileMetadata) :
        /\ fileMetadata[i].id = fileId
        /\ \A k \in 1..(i - 1) : fileMetadata[k].id # fileId
        /\ fileMetadata[i].category = "TESTIMONY"

\* Math.abs(a - b); NaN when b is NaN
AbsDiff(a, b) == IF b = NaN THEN NaN ELSE IF a >= b THEN a - b ELSE b - a

\* x < y on numbers: false when either is NaN
Less(x, y) == x # NaN /\ y # NaN /\ x < y

RECURSIVE ClosestLast(_, _, _, _)
\* the reduce with <= in place of <: of two segments equally close the later
\* is kept
ClosestLast(segs, seconds, n, prev) ==
    IF n > Len(segs) THEN prev
    ELSE ClosestLast(segs, seconds, n + 1,
                     IF Less(AbsDiff(segs[prev].seconds, seconds),
                             AbsDiff(segs[n].seconds, seconds))
                     THEN prev ELSE n)

RECURSIVE Closest(_, _, _, _)
\* source.segments.reduce(closer of prev and curr, source.segments[0]):
\* the index of the segment kept after the first n
Closest(segs, seconds, n, prev) ==
    IF n > Len(segs) THEN prev
    ELSE Closest(segs, seconds, n + 1,
                 IF Less(AbsDiff(segs[n].seconds, seconds),
                         AbsDiff(segs[prev].seconds, seconds))
                 THEN n ELSE prev)

\* the tolerance of findIndex: Math.abs(s.seconds - seconds) < 2
Tolerance == 2

\* segments before and after the centre that the window takes
WindowBefore == 1

WindowAfter == 6

RECURSIVE JoinTexts(_, _, _)
\* segs.slice(from - 1, to).map(s => s.text).join(" ")
JoinTexts(segs, from, to) ==
    IF from > to THEN <<>>
    ELSE IF from = to THEN segs[from].text
    ELSE segs[from].text \o <<" ">> \o JoinTexts(segs, from + 1, to)

\* the text of a citation when a segment at most `tol` seconds away matches
\* and the window ends `after` segments after the centre
citationTextWith(source, seconds, isDoc, tol, after) ==
    IF isDoc
    THEN IF Len(source.segments) = 0 THEN textoIndisponivel
         ELSE source.segments[Closest(source.segments, seconds, 1, 1)].text
    ELSE LET near == {i \in 1..Len(source.segments) :
                         Less(AbsDiff(source.segments[i].seconds, seconds),
                              tol + 1)}
         IN  IF near = {} THEN textoIndisponivel
             ELSE LET c == Min(near)
                      from == IF c - 1 > 1 THEN c - 1 ELSE 1
                      to == IF c + after < Len(source.segments)
                            THEN c + after ELSE Len(source.segments)
                  IN  JoinTexts(source.segments, from, to)

\* a segment exactly 2 seconds away matches too
citationTextInclusive(source, seconds, isDoc) ==
    citationTextWith(source, seconds, isDoc, 2, 5)

\* the window reaches six segments after the centre
citationTextSixAfter(source, seconds, isDoc) ==
    citationTextWith(source, seconds, isDoc, 1, 6)

\* a testimony without a segment within the tolerance takes the text of the
\* closest segment, like a document
citationTextClosest(source, seconds, isDoc) ==
    IF citationTextWith(source, seconds, isDoc, 1, 6) = textoIndisponivel
    THEN citationTextWith(source, seconds, TRUE, 1, 6)
    ELSE citationTextWith(source, seconds, isDoc, 1, 6)

\* the text of a citation of `source` at `seconds`
citationText(source, seconds, isDoc) ==
    IF isDoc
    THEN IF Len(source.segments) = 0 THEN textoIndisponivel
         ELSE source.segments[Closest(source.segments, seconds, 1, 1)].text
    ELSE LET near == {i \in 1..Len(source.segments) :
                         Less(AbsDiff(source.segments[i].seconds, seconds),
                              Tolerance)}
         IN  IF near = {} THEN textoIndisponivel
             ELSE LET centerIdx == Min(near) - 1
                      start == IF centerIdx - WindowBefore > 0
                               THEN centerIdx - WindowBefore ELSE 0
                      end == IF centerIdx + WindowAfter < Len(source.segments)
                             THEN centerIdx + WindowAfter
                             ELSE Len(source.segments)
                  IN  JoinTexts(source.segments, start + 1, end)

\* the first listed timestamp only
firstTimestampOnly(timestampGroup) ==
    <<Trim(SplitOn(timestampGroup, <<",">>, 1)[1])>>

\* timestampGroup.split(',').map(t => t.trim())
timestampsOf(timestampGroup) ==
    LET parts == SplitOn(timestampGroup, <<",">>, 1)
    IN  [i \in 1..Len(parts) |-> Trim(parts[i])]

\* the citations one match of citationRegex adds
CitationsOfMatch(m, pd, fileMetadata) ==
    LET src == FindSource(pd, Trim(m.ref))
        timestamps == timestampsOf(Trim(m.stamps))
    IN  IF src = 0 THEN <<>>
        ELSE [i \in 1..Len(timestamps) |->
                 [fileId |-> pd[src].fileId,
                  fileName |-> pd[src].fileName,
                  timestamp |-> timestamps[i],
                  seconds |-> parseSecondsSafe(timestamps[i]),
                  text |-> citationText(pd[src],
                                        parseSecondsSafe(timestamps[i]),
                                        isDocument(fileMetadata, pd[src].fileId))]]

RECURSIVE CitationsOf(_, _, _, _)
\* citations: those of the matches ms[n..], in order
CitationsOf(ms, n, pd, fileMetadata) ==
    IF n > Len(ms) THEN <<>>
    ELSE CitationsOfMatch(ms[n], pd, fileMetadata)
             \o CitationsOf(ms, n + 1, pd, fileMetadata)

\* facts.find(f => f.id === factId)?.text || "Desconhecido"
factTextOf(facts, factId) ==
    LET hits == {i \in 1..Len(facts) : facts[i].id = factId}
    IN  IF hits = {} \/ facts[Min(hits)].text = <<>> THEN desconhecido
        ELSE facts[Min(hits)].text

\* the loop body for one block: the results it adds
ResultsOfBlock(block, pd, facts, fileMetadata) ==
    IF factIdOf(block) = <<>> THEN <<>>
    ELSE << [factId |-> factIdOf(block),
             factText |-> factTextOf(facts, factIdOf(block)),
             status |-> statusOf(block),
             summary |-> summaryOf(block),
             citations |-> CitationsOf(CiteMatches(evidencesOf(block), 1), 1,
                                       pd, fileMetadata)] >>

RECURSIVE ResultsOf(_, _, _, _, _)
\* results: those of the blocks bs[n..], in order
ResultsOf(bs, n, pd, facts, fileMetadata) ==
    IF n > Len(bs) THEN <<>>
    ELSE ResultsOfBlock(bs[n], pd, facts, fileMetadata)
             \o ResultsOf(bs, n + 1, pd, facts, fileMetadata)

\* rawText.split('[[FACT]]').slice(1)
factBlocks(raw) == Tail(SplitOn(raw, FACT, 1))

\* generalConclusion
generalConclusionOf(raw) ==
    LET conclusionMatch == Between(raw, CONCLUSION, END_CONCLUSION)
    IN  IF conclusionMatch.ok THEN Trim(conclusionMatch.val)
        ELSE analiseConcluida

\* the report returned for the response text `raw` (its id, name and date,
\* taken from the clock, are left out)
ReportOf(raw, pd, facts, fileMetadata) ==
    [generalConclusion |-> generalConclusionOf(raw),
     results |-> ResultsOf(factBlocks(raw), 1, pd, facts, fileMetadata)]

(***************************************************************************)
(* App: evidence files, scopes and the processing buttons                  *)
(***************************************************************************)
\* the number of uploaded evidence files
NumFiles == 3

\* the number of runProcessing invocations followed
MaxRuns == 2

\* evidenceFiles: none virtual, in two categories and two folders; the
\* testimonies are audio files, the other a PDF
evidenceFiles ==
    [i \in 1..NumFiles |->
        [id |-> i,
         name |-> <<"f">> \o Decimal(i),
         type |-> IF i % 3 = 0 THEN "PDF" ELSE "AUDIO",
         category |-> IF i % 3 = 0 THEN "OTHER" ELSE "TESTIMONY",
         folder |-> IF i % 2 = 1 THEN "F1" ELSE "F2",
         isVirtual |-> FALSE]]

\* the scope argument of runProcessing; value is <<category, folder>>, the
\* parts of the string "CATEGORY-FOLDERNAME"
Scopes ==
    {[type |-> "ALL", value |-> <<"", "">>]}
        \cup {[type |-> "CATEGORY", value |-> <<evidenceFiles[i].category, "">>] :
                 i \in 1..NumFiles}
        \cup {[type |-> "FOLDER",
               value |-> <<evidenceFiles[i].category, evidenceFiles[i].folder>>] :
                 i \in 1..NumFiles}

\* project.processedData.find(pd => pd.fileId === f.id)
IsProcessed(pd, f) == \E i \in 1..Len(pd) : pd[i].fileId = f.id

\* the scope check of the filter
InScope(f, scope) ==
    IF scope.type = "ALL" THEN TRUE
    ELSE IF scope.type = "CATEGORY" THEN f.category = scope.value[1]
    ELSE f.category = scope.value[1] /\ f.folder = scope.value[2]

\* unprocessed: the files runProcessing will work through
Unprocessed(pd, scope) ==
    SelectSeq(evidenceFiles,
              LAMBDA f : ~f.isVirtual /\ ~IsProcessed(pd, f) /\ InScope(f, scope))

\* totalUnprocessed
totalUnprocessed(pd) ==
    Cardinality({i \in 1..NumFiles :
        ~evidenceFiles[i].isVirtual /\ ~IsProcessed(pd, evidenceFiles[i])})

\* unprocessedCount and folderUnprocessed: like the filter, without the
\* isVirtual test
ScopeUnprocessed(pd, scope) ==
    Cardinality({i \in 1..NumFiles :
        ~IsProcessed(pd, evidenceFiles[i]) /\ InScope(evidenceFiles[i], scope)})

\* whether the button that calls runProcessing(scope) can be clicked
ButtonEnabled(pd, queue, scope) ==
    IF scope.type = "ALL" THEN totalUnprocessed(pd) > 0 /\ Len(queue) = 0
    ELSE IF scope.type = "CATEGORY"
         THEN ~(ScopeUnprocessed(pd, scope) = 0 \/ Len(queue) > 0)
         ELSE ScopeUnprocessed(pd, scope) > 0

\* the queue left as it is: no filter in the finally block
FilterOutNothing(queue, fileId) == queue

\* prev.filter(id => id !== fileId)
FilterOut(queue, fileId) == SelectSeq(queue, LAMBDA id : id # fileId)

\* a run that has not been invoked
IdleRun == [pc |-> "idle", unprocessed |-> <<>>, idx |-> 0, stopped |-> FALSE]

\* stopProcessing: the flag is set; `stopped` remembers, for each run
\* awaiting a file, that it was stopped while active
Stopped(rs) ==
    [r \in DOMAIN rs |->
        IF rs[r].pc = "awaiting" THEN [rs[r] EXCEPT !.stopped = TRUE] ELSE rs[r]]

(***************************************************************************)
(* The state of each part while another part is exercised                  *)
(***************************************************************************)
CleanIdle ==
    /\ shape = [u1 |-> 1, n1 |-> 1, u2 |-> 1, n2 |-> 0, sep |-> 1]
    /\ text = <<>>
    /\ out1 = <<>>
    /\ out2 = <<>>
    /\ stage = "idle"

SanIdle ==
    /\ chunks = <<>>
    /\ rawText = <<>>
    /\ lines = <<>>
    /\ lineNo = 0
    /\ segments = <<>>
    /\ lastSeconds = -1
    /\ lastText = <<>>
    /\ origin = <<>>
    /\ sanStage = "idle"

AppIdle ==
    /\ processedData = <<>>
    /\ processingQueue = <<>>
    /\ abortProcessingRef = FALSE
    /\ runs = [r \in 1..MaxRuns |-> IdleRun]

\* no evidence marker singled out in the response
NoCite == [ref |-> 0]

\* no report
NoReport == [generalConclusion |-> <<>>, results |-> <<>>]

ReportIdle ==
    /\ reportData = <<>>
    /\ responseText = <<>>
    /\ report = NoReport
    /\ reportError = ""
    /\ reportStage = "idle"
    /\ cite = NoCite

ParseIdle ==
    /\ stampForm = [form |-> "none"]
    /\ stampText = <<>>
    /\ parsedSeconds = 0
    /\ parseStage = "idle"

ImportIdle ==
    /\ manualName = <<>>
    /\ manualText = <<>>
    /\ isManualImportOpen = FALSE
    /\ importedFiles = <<>>

(***************************************************************************)
(* Loop cleaner harness: the cleaner applied once and twice to inputs made *)
(* of one or two runs of a repeated word or phrase.                        *)
(***************************************************************************)
\* the most repetitions of a unit in an input
MaxRep == 4

mas == <<"m", "a", "s">>

pois == <<"p", "o", "i", "s">>

nao == <<"n", "a~", "o">>

eDepois == <<"e", " ", "d", "e", "p", "o", "i", "s">>

abc == <<"a", "-", "b", "-", "c">>

abcx == <<"a", "-", "b", "-", "c", "x">>

\* the words and phrases inputs are made of
Units == <<mas, pois, nao, eDepois, abc, abcx>>

\* the separators between occurrences
Seps == << <<" ">>, <<",", " ">> >>

RECURSIVE Run(_, _, _)
\* n occurrences of u separated by sep
Run(u, n, sep) == IF n = 0 THEN <<>>
                  ELSE IF n = 1 THEN u ELSE u \o sep \o Run(u, n - 1, sep)

\* the input of a shape: a run of u1, then (when n2 > 0) a run of u2
ShapeText(sh) ==
    LET sep == Seps[sh.sep]
    IN  Run(Units[sh.u1], sh.n1, sep)
            \o (IF sh.n2 = 0 THEN <<>> ELSE sep \o Run(Units[sh.u2], sh.n2, sep))

Shapes == {sh \in [u1 : 1..Len(Units), n1 : 1..MaxRep,
                   u2 : 1..Len(Units), n2 : 0..MaxRep, sep : 1..Len(Seps)] :
              sh.n2 = 0 => sh.u2 = 1}

InitClean ==
    /\ shape \in Shapes
    /\ text = ShapeText(shape)
    /\ out1 = <<>>
    /\ out2 = <<>>
    /\ stage = "input"
    /\ SanIdle
    /\ AppIdle
    /\ ReportIdle
    /\ ParseIdle
    /\ ImportIdle

\* cleanRepetitiveLoops(text)
CleanOnce ==
    /\ stage = "input"
    /\ out1' = cleanRepetitiveLoops(text)
    /\ stage' = "once"
    /\ UNCHANGED <<shape, text, out2, sanVars, appVars, reportVars, parseVars, importVars>>

\* cleanRepetitiveLoops applied to its own output, as a later pipeline stage does
CleanTwice ==
    /\ stage = "once"
    /\ out2' = cleanRepetitiveLoops(out1)
    /\ stage' = "twice"
    /\ UNCHANGED <<shape, text, out1, sanVars, appVars, reportVars, parseVars, importVars>>

NextClean == CleanOnce \/ CleanTwice

SpecClean == InitClean /\ [][NextClean]_vars

\* C1: applying the loop cleaner a second time never changes its output
C1_CleanIdempotent == stage = "twice" => out2 = out1

IsPrefix(a, b) == Len(a) <= Len(b) /\ SubSeq(b, 1, Len(a)) = a

\* a run of 4 or more occurrences collapsed to one, a shorter run kept
Collapsed(u, n, sep) == IF n >= MinExtraReps + 1 THEN u ELSE Run(u, n, sep)

\* the input with every run of 4 or more collapsed
CollapsedText(sh) ==
    LET sep == Seps[sh.sep]
    IN  Collapsed(Units[sh.u1], sh.n1, sep)
            \o (IF sh.n2 = 0 THEN <<>>
                ELSE sep \o Collapsed(Units[sh.u2], sh.n2, sep))

\* the two runs are of unrelated units
Unrelated(sh) ==
    sh.n2 > 0 => /\ ~IsPrefix(Units[sh.u1], Units[sh.u2])
                 /\ ~IsPrefix(Units[sh.u2], Units[sh.u1])

\* C8: every run of 4 or more consecutive occurrences of a word or of a
\* phrase of 5 to 50 characters is collapsed to one occurrence, and the text
\* around it is left as it was
C8_CollapsesEveryRun ==
    (stage \in {"once", "twice"} /\ Unrelated(shape))
        => out1 = CollapsedText(shape)

\* the same holds of the inputs whose words are all written in ASCII
AsciiRunsCollapse ==
    (stage \in {"once", "twice"} /\ Unrelated(shape) /\ shape.u1 # 3
        /\ (shape.n2 > 0 => shape.u2 # 3)) => out1 = CollapsedText(shape)

(***************************************************************************)
(* Sanitizer harness: sanitizeTranscript run line by line on transcripts   *)
(* made of chunks, each an optional marker and a text, joined by a space   *)
(* or a newline.                                                           *)
(***************************************************************************)
\* the most chunks in a transcript
MaxChunks == 3

oi == <<"O", "i", ".">>

bem == <<"B", "e", "m", ".">>

umLoop == <<"u", "m", " ", "u", "m", " ", "u", "m", " ", "u", "m">>

\* the kinds of chunk: a marker (none for a continuation), the position the
\* marker denotes, and a text
ChunkKinds ==
    << [marker |-> <<"[", "0", "0", ":", "0", "5", "]">>, pos |-> 5, text |-> oi],
       [marker |-> <<"[", "0", "0", ":", "0", "1", "]">>, pos |-> 1,
        text |-> umLoop],
       [marker |-> <<"[", "P", "a'", "g", " ", "2", "]">>, pos |-> 2,
        text |-> <<"a">>],
       [marker |-> <<"0", "0", ":", "0", "7">>, pos |-> 7, text |-> bem],
       [marker |-> <<"(", "0", "0", ":", "0", "9", ")">>, pos |-> 9,
        text |-> inaudivel],
       [marker |-> <<>>, pos |-> -1, text |-> umLoop],
       [marker |-> <<>>, pos |-> -1, text |-> <<"a">>],
       [marker |-> <<>>, pos |-> -1, text |-> <<"[", "x", "]">>] >>

\* what joins a chunk to the one before it
Joiners == << <<" ">>, <<"\n">> >>

HasMarker(c) == ChunkKinds[c.k].marker # <<>>

\* a chunk: its kind and its joiner; a continuation begins a line
Chunks == {c \in [k : 1..Len(ChunkKinds), j : 1..Len(Joiners)] :
              ~HasMarker(c) => c.j = 2}

ChunkText(c) ==
    IF HasMarker(c)
    THEN ChunkKinds[c.k].marker \o <<" ">> \o ChunkKinds[c.k].text
    ELSE ChunkKinds[c.k].text

RECURSIVE RawOf(_, _)
\* the transcript made of the chunks cs[1..n]
RawOf(cs, n) ==
    IF n = 0 THEN <<>>
    ELSE IF n = 1 THEN ChunkText(cs[1])
    ELSE RawOf(cs, n - 1) \o Joiners[cs[n].j] \o ChunkText(cs[n])

Transcripts ==
    UNION {{cs \in [1..n -> Chunks] : cs[1].j = 2} : n \in 1..MaxChunks}

InitSanitize ==
    /\ chunks \in Transcripts
    /\ rawText = RawOf(chunks, Len(chunks))
    /\ lines = <<>>
    /\ lineNo = 0
    /\ segments = <<>>
    /\ lastSeconds = -1
    /\ lastText = <<>>
    /\ origin = <<>>
    /\ sanStage = "raw"
    /\ CleanIdle
    /\ AppIdle
    /\ ReportIdle
    /\ ParseIdle
    /\ ImportIdle

\* formattedText and its split into lines
Normalize ==
    /\ sanStage = "raw"
    /\ lines' = SplitLines(formattedText(rawText), 1)
    /\ lineNo' = 1
    /\ sanStage' = "loop"
    /\ UNCHANGED <<chunks, rawText, segments, lastSeconds, lastText, origin,
                   cleanVars, appVars, reportVars, parseVars, importVars>>

\* if (line.trim().length < 2) continue
SkipLine ==
    /\ sanStage = "loop"
    /\ lineNo <= Len(lines)
    /\ Len(Trim(lines[lineNo])) < 2
    /\ lineNo' = lineNo + 1
    /\ UNCHANGED <<chunks, rawText, lines, segments, lastSeconds, lastText,
                   origin, sanStage, cleanVars, appVars, reportVars, parseVars, importVars>>

\* a line that matches timestampRegex; `origin` remembers the line each
\* segment was made from
MarkerLine ==
    /\ sanStage = "loop"
    /\ lineNo <= Len(lines)
    /\ Len(Trim(lines[lineNo])) >= 2
    /\ timestampRegex(lines[lineNo]).ok
    /\ LET st == MarkerStep([segments |-> segments, lastSeconds |-> lastSeconds,
                             lastText |-> lastText],
                            timestampRegex(lines[lineNo]))
       IN  /\ segments' = st.segments
           /\ lastSeconds' = st.lastSeconds
           /\ lastText' = st.lastText
           /\ origin' = IF Len(st.segments) > Len(segments)
                        THEN Append(origin, lineNo) ELSE origin
    /\ lineNo' = lineNo + 1
    /\ UNCHANGED <<chunks, rawText, lines, sanStage, cleanVars, appVars, reportVars, parseVars, importVars>>

\* a line that does not match timestampRegex
ContinuationLine ==
    /\ sanStage = "loop"
    /\ lineNo <= Len(lines)
    /\ Len(Trim(lines[lineNo])) >= 2
    /\ ~timestampRegex(lines[lineNo]).ok
    /\ LET st == ContinuationStep([segments |-> segments,
                                   lastSeconds |-> lastSeconds,
                                   lastText |-> lastText], lines[lineNo])
       IN  /\ segments' = st.segments
           /\ lastSeconds' = st.lastSeconds
           /\ lastText' = st.lastText
    /\ lineNo' = lineNo + 1
    /\ UNCHANGED <<chunks, rawText, lines, origin, sanStage, cleanVars, appVars, reportVars, parseVars, importVars>>

\* return segments
ReturnSegments ==
    /\ sanStage = "loop"
    /\ lineNo > Len(lines)
    /\ sanStage' = "done"
    /\ UNCHANGED <<chunks, rawText, lines, lineNo, segments, lastSeconds,
                   lastText, origin, cleanVars, appVars, reportVars, parseVars, importVars>>

NextSanitize ==
    Normalize \/ SkipLine \/ MarkerLine \/ ContinuationLine \/ ReturnSegments

SpecSanitize == InitSanitize /\ [][NextSanitize]_vars

\* C2: in the returned list, seconds never decreases from a segment to a
\* later one
C2_SecondsNonDecreasing ==
    sanStage = "done" =>
        \A i, j \in 1..Len(segments) :
            i < j => segments[i].seconds <= segments[j].seconds

\* the segments, in order, are made from chunks cs[f[1]], cs[f[2]], ...
MadeFrom(segs, cs, f) ==
    /\ \A i, j \in 1..Len(segs) : i < j => f[i] < f[j]
    /\ \A i \in 1..Len(segs) :
          /\ HasMarker(cs[f[i]])
          /\ segs[i].seconds = ChunkKinds[cs[f[i]].k].pos

\* C3: the segments are in the order of the marker lines they were made from:
\* the lines of origin increase along the list, each segment carries the
\* position of its line's marker, and the list of positions follows the
\* order of the markers in the transcript, whatever the positions are
C3_NoReordering ==
    /\ Len(origin) = Len(segments)
    /\ \A i, j \in 1..Len(segments) : i < j => origin[i] < origin[j]
    /\ \A i \in 1..Len(segments) :
          LET m == timestampRegex(lines[origin[i]])
          IN  /\ m.ok
              /\ segments[i].seconds = metricValue(m)
              /\ segments[i].timestamp = displayTimestamp(m)
    /\ \E f \in [1..Len(segments) -> 1..Len(chunks)] :
          MadeFrom(segments, chunks, f)

\* two segments returned in input order although the first is the later one
C3_OutOfTimeOrderKept ==
    /\ sanStage = "done"
    /\ Len(segments) = 2
    /\ origin[1] < origin[2]
    /\ segments[1].seconds = 5
    /\ segments[2].seconds = 1

\* the line of the current iteration is a continuation that the loop appends
IsAppended(line, segs) ==
    /\ Len(Trim(line)) >= 2
    /\ ~timestampRegex(line).ok
    /\ Len(segs) > 0
    /\ ~StartsWithBracket(cleanRepetitiveLoops(Trim(line)))
    /\ Len(cleanRepetitiveLoops(Trim(line))) > 1

\* segs2 is segs with `added` appended after a space to the last text
AppendedTo(segs, segs2, added) ==
    /\ Len(segs2) = Len(segs)
    /\ \A i \in 1..(Len(segs) - 1) : segs2[i] = segs[i]
    /\ segs2[Len(segs)].text = segs[Len(segs)].text \o <<" ">> \o added
    /\ segs2[Len(segs)].seconds = segs[Len(segs)].seconds
    /\ segs2[Len(segs)].timestamp = segs[Len(segs)].timestamp

\* one iteration of the loop is taken
LineTaken == sanStage = "loop" /\ lineNo <= Len(lines) /\ lineNo' = lineNo + 1

\* C9 as stated: a non-empty line that matches no marker and does not begin
\* with '[' is appended, loop-cleaned and after one space, to the last
\* segment when there is one, and the number of segments does not change; it
\* is dropped when there is none
C9_NonMarkerLineAppended ==
    [][(LineTaken /\ Len(Trim(lines[lineNo])) > 0
            /\ ~timestampRegex(lines[lineNo]).ok
            /\ ~StartsWithBracket(lines[lineNo]))
        => IF Len(segments) > 0
           THEN AppendedTo(segments, segments',
                           cleanRepetitiveLoops(Trim(lines[lineNo])))
           ELSE segments' = <<>>]_vars

\* C9, amended: a line of two or more characters (trimmed) that matches no
\* marker, and whose loop-cleaned trimmed text has more than one character
\* and does not begin with '[', is appended (that cleaned text after one
\* space) to the last segment when there is one, the other segments and the
\* number of segments unchanged; a non-marker line met before any segment is
\* dropped; any other non-marker line leaves the segments as they are
C9_ContinuationAppended ==
    [][(LineTaken /\ ~timestampRegex(lines[lineNo]).ok)
        => IF IsAppended(lines[lineNo], segments)
           THEN AppendedTo(segments, segments',
                           cleanRepetitiveLoops(Trim(lines[lineNo])))
           ELSE segments' = segments]_vars

\* a continuation has just been appended to the second of two segments, and
\* the loop cleaner shortened it
C9_AppendedToLast ==
    /\ sanStage = "loop"
    /\ lineNo > 1
    /\ Len(segments) = 2
    /\ lines[lineNo - 1] = umLoop
    /\ segments[2].text = <<"u", "m", " ", "u", "m">>
    /\ segments[1].text = oi

\* every chunk has a marker followed by a text of its own, and all are on
\* one physical line
MarkersOnOneLine(cs) ==
    /\ \A i \in 1..Len(cs) :
          HasMarker(cs[i]) /\ ~IsHallucination(ChunkKinds[cs[i].k].text)
    /\ \A i \in 2..Len(cs) :
          /\ cs[i].j = 1
          /\ ChunkKinds[cs[i].k].text # ChunkKinds[cs[i - 1].k].text

\* C10: a physical line of k markers, each followed by its text, yields k
\* segments
C10_EveryMarkerSplit ==
    (sanStage = "done" /\ MarkersOnOneLine(chunks))
        => Len(segments) = Len(chunks)

\* no line of the input, as given, matches timestampRegex
NoMarkerIn(raw) ==
    \A i \in 1..Len(SplitLines(raw, 1)) :
        ~timestampRegex(SplitLines(raw, 1)[i]).ok

\* one step of the for loop: the line at lineNo is consumed, or the loop is
\* over and the function returns
LoopAdvances ==
    sanStage = "loop" =>
        \/ lineNo <= Len(lines) /\ lineNo' = lineNo + 1 /\ sanStage' = "loop"
        \/ lineNo > Len(lines) /\ sanStage' = "done"

\* C11: sanitizeTranscript returns for every input: every step of its loop
\* consumes one of the finitely many lines, no step leaves the loop except
\* the return statement, reached when all the lines are consumed (no
\* statement in between can throw); and what it returns for an input without
\* any recognizable marker is the empty list
C11_ReturnsAndEmptyWithoutMarker ==
    /\ [][LoopAdvances]_vars
    /\ [](sanStage = "done" => lineNo = Len(lines) + 1)
    /\ []((sanStage = "done" /\ NoMarkerIn(rawText)) => segments = <<>>)

\* C11 witness: an input of several lines, none with a marker, has been
\* processed to the end
C11_NoMarkerReturned ==
    /\ sanStage = "done"
    /\ NoMarkerIn(rawText)
    /\ Len(lines) >= 2
    /\ \E i \in 1..Len(lines) : Len(Trim(lines[i])) >= 2
    /\ segments = <<>>

\* the loop-cleaned text of a marker line
CleanedTextOf(line) == cleanRepetitiveLoops(Trim(timestampRegex(line).rest))

\* one iteration of the loop is taken on a marker line that is not
\* boilerplate and has a text
TextLineTaken ==
    /\ LineTaken
    /\ Len(Trim(lines[lineNo])) >= 2
    /\ timestampRegex(lines[lineNo]).ok
    /\ ~IsHallucination(Trim(timestampRegex(lines[lineNo]).rest))
    /\ CleanedTextOf(lines[lineNo]) # <<>>

\* the line has been made the last segment
Accepted(line, segs, segs2) ==
    /\ Len(segs2) = Len(segs) + 1
    /\ SubSeq(segs2, 1, Len(segs)) = segs
    /\ segs2[Len(segs2)].text = CleanedTextOf(line)

\* C21 as claimed: a marker line is discarded as a duplicate exactly when its
\* loop-cleaned text is identical to the text that the last accepted segment
\* holds at that moment, continuation appends included
C21_DuplicateOfCurrentText ==
    [][TextLineTaken =>
        IF Len(segments) > 0
              /\ CleanedTextOf(lines[lineNo]) = segments[Len(segments)].text
        THEN segments' = segments
        ELSE Accepted(lines[lineNo], segments, segments')]_vars

\* C21 amended: a marker line is discarded as a duplicate exactly when its
\* loop-cleaned text is identical to the loop-cleaned text of the marker line
\* from which the last accepted segment was made, continuation appends not
\* included; and the reference text lastText is that text
C21_DuplicateOfAcceptedText ==
    /\ [][TextLineTaken =>
            IF Len(origin) > 0
                  /\ CleanedTextOf(lines[lineNo])
                         = CleanedTextOf(lines[origin[Len(origin)]])
            THEN segments' = segments
            ELSE Accepted(lines[lineNo], segments, segments')]_vars
    /\ [](lastText = IF Len(origin) > 0
                     THEN CleanedTextOf(lines[origin[Len(origin)]])
                     ELSE <<>>)

\* C21 witness: a marker line has been discarded whose text is that of the
\* line the one segment was made from, a continuation having been appended
\* to that segment in between
C21_DiscardedAfterAppend ==
    /\ sanStage = "loop"
    /\ lineNo = 4
    /\ timestampRegex(lines[3]).ok
    /\ CleanedTextOf(lines[3]) = oi
    /\ origin = <<1>>
    /\ Len(segments) = 1
    /\ segments[1].text = oi \o <<" ", "u", "m">>

(***************************************************************************)
(* sanitizeTranscript on transcripts of repeated words: a marker line whose *)
(* text is a run of a unit, an optional second line without a marker that  *)
(* holds another run, and a final newline.                                 *)
(***************************************************************************)
LoopTranscript(sh) ==
    ChunkKinds[2].marker \o <<" ">> \o Run(Units[sh.u1], sh.n1, Seps[sh.sep])
        \o (IF sh.n2 = 0 THEN <<>>
            ELSE <<"\n">> \o Run(Units[sh.u2], sh.n2, Seps[sh.sep]))
        \o <<"\n">>

InitSanitizeLoops ==
    /\ shape \in Shapes
    /\ rawText = LoopTranscript(shape)
    /\ chunks = <<>>
    /\ lines = <<>>
    /\ lineNo = 0
    /\ segments = <<>>
    /\ lastSeconds = -1
    /\ lastText = <<>>
    /\ origin = <<>>
    /\ sanStage = "raw"
    /\ text = <<>>
    /\ out1 = <<>>
    /\ out2 = <<>>
    /\ stage = "idle"
    /\ AppIdle
    /\ ReportIdle
    /\ ParseIdle
    /\ ImportIdle

SpecSanitizeLoops == InitSanitizeLoops /\ [][NextSanitize]_vars

\* C20: the text of every returned segment is non-empty and loop-free: the
\* loop cleaner applied to it gives it back unchanged
C20_SegmentsLoopFree ==
    sanStage = "done" =>
        \A i \in 1..Len(segments) :
            /\ segments[i].text # <<>>
            /\ cleanRepetitiveLoops(segments[i].text) = segments[i].text

(***************************************************************************)
(* sanitizeTranscript on transcripts with a boilerplate line: up to two    *)
(* marker lines that are accepted, a marker line whose text holds a        *)
(* boilerplate phrase, then optionally a line without a marker and a       *)
(* marker line that repeats the text of the first line.                    *)
(***************************************************************************)
\* texts that hold 'subtitles by' or 'inaudivel' in some letter case
Boilerplates ==
    << inaudivel,
       <<"I", "N", "A", "U", "D", "I'", "V", "E", "L">>,
       <<"[", "I", "n", "a", "u", "d", "i'", "v", "e", "l", "]">>,
       <<"S", "u", "b", "t", "i", "t", "l", "e", "s", " ", "b", "y", " ", "X">>,
       <<"x", " ", "s", "u", "b", "t", "i", "t", "l", "e", "s", " ", "B", "Y">> >>

\* the markers of the boilerplate line
BoilerMarkers ==
    << <<"[", "0", "0", ":", "0", "9", "]">>,
       <<"(", "0", "0", ":", "0", "9", ")">>,
       <<"[", "P", "a'", "g", " ", "2", "]">> >>

\* the lines before the boilerplate line
AcceptedLines ==
    << ChunkKinds[1].marker \o <<" ">> \o oi,
       ChunkKinds[4].marker \o <<" ">> \o bem >>

\* the lines without a marker that may follow it
FollowingLines == << umLoop, eDepois >>

BoilerShapes ==
    [pre : 0..Len(AcceptedLines), b : 1..Len(Boilerplates),
     marker : 1..Len(BoilerMarkers), cont : 0..Len(FollowingLines),
     post : BOOLEAN]

\* the lines of the transcript, with or without the boilerplate line
BoilerLines(sh, withBoiler) ==
    SubSeq(AcceptedLines, 1, sh.pre)
        \o (IF withBoiler
            THEN << BoilerMarkers[sh.marker] \o <<" ">> \o Boilerplates[sh.b] >>
            ELSE <<>>)
        \o (IF sh.cont = 0 THEN <<>> ELSE << FollowingLines[sh.cont] >>)
        \o (IF sh.post THEN << AcceptedLines[1] >> ELSE <<>>)

RECURSIVE JoinLines(_, _)
\* the lines ls[1..n], a newline after each
JoinLines(ls, n) ==
    IF n = 0 THEN <<>> ELSE JoinLines(ls, n - 1) \o ls[n] \o <<"\n">>

InitSanitizeBoilerplate ==
    /\ chunks \in BoilerShapes
    /\ rawText = JoinLines(BoilerLines(chunks, TRUE),
                           Len(BoilerLines(chunks, TRUE)))
    /\ lines = <<>>
    /\ lineNo = 0
    /\ segments = <<>>
    /\ lastSeconds = -1
    /\ lastText = <<>>
    /\ origin = <<>>
    /\ sanStage = "raw"
    /\ CleanIdle
    /\ AppIdle
    /\ ReportIdle
    /\ ParseIdle
    /\ ImportIdle

SpecSanitizeBoilerplate == InitSanitizeBoilerplate /\ [][NextSanitize]_vars

\* the iteration taken is that of the boilerplate line
BoilerLineTaken ==
    /\ LineTaken
    /\ lineNo = chunks.pre + 1
    /\ lines[lineNo] = BoilerMarkers[chunks.marker] \o <<" ">>
                           \o Boilerplates[chunks.b]

\* C22: a marker line whose text holds a boilerplate phrase, in any letter
\* case, changes neither the segments nor lastText nor lastSeconds, and the
\* function returns what it returns for the transcript without that line: no
\* segment is made of the line, and a line without a marker that follows it
\* is appended to the segment accepted before it
C22_BoilerplateLeavesStateAlone ==
    /\ [][BoilerLineTaken =>
            /\ segments' = segments
            /\ lastText' = lastText
            /\ lastSeconds' = lastSeconds]_vars
    /\ [](sanStage = "done" =>
            /\ lineNo > chunks.pre + 1
            /\ segments =
                  SegmentsOfLines(BoilerLines(chunks, FALSE),
                                  Len(BoilerLines(chunks, FALSE))).segments)

\* C22 witness: the boilerplate line, in capitals, came after one accepted
\* line; the line without a marker after it was appended to that segment,
\* and the repeated first line was then discarded as a duplicate
C22_ContinuationPastBoilerplate ==
    /\ sanStage = "done"
    /\ chunks.pre = 1
    /\ chunks.b = 2
    /\ chunks.cont = 2
    /\ chunks.post
    /\ Len(lines) >= 4
    /\ Len(segments) = 1
    /\ segments[1].text = oi \o <<" ">> \o eDepois

(***************************************************************************)
(* sanitizeTranscript on transcripts whose lines begin with a marker in    *)
(* each of the forms timestampRegex accepts: the position written with and *)
(* without hours, with one or two digits, with minutes past 59, and as a   *)
(* page in the three spellings; the last form, three digits of minutes, is *)
(* one it does not accept.                                                 *)
(***************************************************************************)
\* the most lines of such a transcript
MaxMarkerLines == 2

MarkerForms ==
    << <<"[", "0", "0", ":", "0", "5", "]">>,
       <<"1", ":", "0", "2", ":", "0", "3">>,
       <<"[", "1", "2", ":", "3", "4", ":", "5", "6", "]">>,
       <<"0", "0", ":", "0", "1", ":", "0", "5">>,
       <<"(", "5", ":", "0", "7", ")">>,
       <<"7", "5", ":", "3", "0">>,
       <<"-", "1", ":", "2", ":", "0", "3", ":">>,
       <<"[", "P", "a'", "g", " ", "1", "2", "]">>,
       <<"P", "a", "g", "e", " ", "3", ":">>,
       <<"*", "p", "a", "g", ".", "0", "7", "*">>,
       <<"[", "1", "2", "3", ":", "4", "5", "]">> >>

\* the texts of the lines, taken in turn
MarkerLineTexts == << oi, bem, eDepois >>

MarkerChoices == UNION {[1..n -> 1..Len(MarkerForms)] : n \in 1..MaxMarkerLines}

\* the lines of the transcript that uses the forms fs
MarkerLines(fs) ==
    [i \in 1..Len(fs) |->
        MarkerForms[fs[i]] \o <<" ">>
            \o MarkerLineTexts[((i - 1) % Len(MarkerLineTexts)) + 1]]

InitSanitizeStamps ==
    /\ chunks \in MarkerChoices
    /\ rawText = JoinLines(MarkerLines(chunks), Len(chunks))
    /\ lines = <<>>
    /\ lineNo = 0
    /\ segments = <<>>
    /\ lastSeconds = -1
    /\ lastText = <<>>
    /\ origin = <<>>
    /\ sanStage = "raw"
    /\ CleanIdle
    /\ AppIdle
    /\ ReportIdle
    /\ ParseIdle
    /\ ImportIdle

SpecSanitizeStamps == InitSanitizeStamps /\ [][NextSanitize]_vars

\* C27: for every segment sanitizeTranscript returns, parseSecondsSafe of
\* its timestamp is its seconds
C27_TimestampParsesBack ==
    sanStage = "done" =>
        \A i \in 1..Len(segments) :
            parseSecondsSafe(segments[i].timestamp) = segments[i].seconds

\* C27 witness: a returned list with a position of more than an hour and a
\* page
C27_HoursAndPageReturned ==
    /\ sanStage = "done"
    /\ Len(segments) = 2
    /\ segments[1].timestamp = <<"0", "1", ":", "0", "2", ":", "0", "3">>
    /\ segments[1].seconds = 3723
    /\ segments[2].timestamp = <<"P", "a'", "g", " ", "1", "2">>
    /\ segments[2].seconds = 12

(***************************************************************************)
(* App: runProcessing and stopProcessing.  A run is one invocation of      *)
(* runProcessing; between two awaits its code runs without interruption.   *)
(***************************************************************************)
InitApp ==
    /\ processedData = <<>>
    /\ processingQueue = <<>>
    /\ abortProcessingRef = FALSE
    /\ runs = [r \in 1..MaxRuns |-> IdleRun]
    /\ CleanIdle
    /\ SanIdle
    /\ ReportIdle
    /\ ParseIdle
    /\ ImportIdle

\* a click on a button that calls runProcessing(scope): the files to process
\* are filtered, the abort flag is cleared, and the loop runs up to its first
\* await of processFile
RunProcessing(r, scope) ==
    /\ runs[r].pc = "idle"
    /\ \A q \in 1..(r - 1) : runs[q].pc # "idle"
    /\ ButtonEnabled(processedData, processingQueue, scope)
    /\ LET unprocessed == Unprocessed(processedData, scope)
       IN  /\ Len(unprocessed) > 0
           /\ abortProcessingRef' = FALSE
           /\ processingQueue' = Append(processingQueue, unprocessed[1].id)
           /\ runs' = [runs EXCEPT ![r] = [pc |-> "awaiting",
                                           unprocessed |-> unprocessed,
                                           idx |-> 1,
                                           stopped |-> FALSE]]
    /\ UNCHANGED <<processedData, cleanVars, sanVars, reportVars, parseVars, importVars>>

\* the same with every error handled as a quota error is: the flag set and
\* the active runs stopped
AfterSettleStopsOnError(r, outcome) ==
    LET file == runs[r].unprocessed[runs[r].idx]
    IN  [abort |-> IF outcome # "ok" THEN TRUE ELSE abortProcessingRef,
         queue |-> FilterOut(processingQueue, file.id),
         rs |-> IF outcome # "ok" THEN Stopped(runs) ELSE runs]

\* the end of the iteration of run r once processFile has settled with
\* `outcome`, the finally block included: the flag, the queue and the run
\* after the catch block, before the next iteration
AfterSettle(r, outcome) ==
    LET file == runs[r].unprocessed[runs[r].idx]
    IN  [abort |-> IF outcome = "quota" THEN TRUE ELSE abortProcessingRef,
         queue |-> FilterOut(processingQueue, file.id),
         rs |-> IF outcome = "quota" THEN Stopped(runs) ELSE runs]

\* processFile settles for run r with `outcome`: a result ("ok", the content
\* being `result`), a quota error ("quota") or another error ("error"); the
\* loop then runs up to its next await or to its end
SettleWith(r, outcome, result) ==
    /\ runs[r].pc = "awaiting"
    /\ LET file == runs[r].unprocessed[runs[r].idx]
           after == AfterSettle(r, outcome)
           more == runs[r].idx < Len(runs[r].unprocessed)
       IN  /\ processedData' = IF outcome = "ok"
                               THEN Append(processedData, result)
                               ELSE processedData
           /\ abortProcessingRef' = after.abort
           /\ IF outcome = "quota" \/ ~more
              THEN /\ processingQueue' = after.queue
                   /\ runs' = [after.rs EXCEPT ![r].pc = "ended"]
              ELSE IF after.abort
                   THEN /\ processingQueue' = <<>>
                        /\ runs' = [after.rs EXCEPT ![r].pc = "ended"]
                   ELSE /\ processingQueue' =
                              Append(after.queue,
                                     runs[r].unprocessed[runs[r].idx + 1].id)
                        /\ runs' = [after.rs EXCEPT ![r].idx = @ + 1]
    /\ UNCHANGED <<cleanVars, sanVars, reportVars, parseVars, importVars>>

\* processFile settles for run r, the content of its result left out
ProcessFileSettles(r, outcome) ==
    /\ runs[r].pc = "awaiting"
    /\ SettleWith(r, outcome,
                  [fileId |-> runs[r].unprocessed[runs[r].idx].id])

\* a click on the stop button, shown while files are queued
StopProcessing ==
    /\ totalUnprocessed(processedData) > 0
    /\ Len(processingQueue) > 0
    /\ abortProcessingRef' = TRUE
    /\ runs' = Stopped(runs)
    /\ UNCHANGED <<processedData, processingQueue, cleanVars, sanVars, reportVars, parseVars, importVars>>

Next ==
    \/ \E r \in 1..MaxRuns, scope \in Scopes : RunProcessing(r, scope)
    \/ \E r \in 1..MaxRuns, outcome \in {"ok", "error", "quota"} :
          ProcessFileSettles(r, outcome)
    \/ StopProcessing

Spec == InitApp /\ [][Next]_vars

\* C5: the queue never holds more than one file id, and no two runs await
\* processFile at once
C5_OneFileInFlight ==
    /\ Len(processingQueue) <= 1
    /\ Cardinality({r \in 1..MaxRuns : runs[r].pc = "awaiting"}) <= 1

\* run r passes to its next file
StartsNextFile(r) ==
    /\ runs[r].pc = "awaiting"
    /\ runs'[r].pc = "awaiting"
    /\ runs'[r].idx = runs[r].idx + 1

\* C6: a run that was active when processing was stopped starts no further
\* processFile call
C6_StoppedRunStartsNothing ==
    [][\A r \in 1..MaxRuns : runs[r].stopped => ~StartsNextFile(r)]_vars

\* C19: processedData holds at most one ProcessedContent per fileId
C19_OneEntryPerFile ==
    \A i, j \in 1..Len(processedData) :
        processedData[i].fileId = processedData[j].fileId => i = j

\* C28: when processFile fails for the file of run r with an error that is
\* not a quota error, nothing is stored for it, its id leaves the queue, and
\* unless processing was stopped the run passes to its next file, whose id
\* enters the queue
C28_FailureSkipsOnlyThatFile ==
    [][\A r \in 1..MaxRuns :
          ProcessFileSettles(r, "error") =>
              LET file == runs[r].unprocessed[runs[r].idx]
                  more == runs[r].idx < Len(runs[r].unprocessed)
              IN  /\ processedData' = processedData
                  /\ \A k \in 1..Len(processingQueue') :
                        processingQueue'[k] # file.id
                  /\ (more /\ ~abortProcessingRef) =>
                        /\ StartsNextFile(r)
                        /\ processingQueue'[Len(processingQueue')] =
                              runs[r].unprocessed[runs[r].idx + 1].id]_vars

\* C28 witness: the first file of a run failed, the run went on, and its
\* second file was processed and stored
C28_LaterFileStoredAfterFailure ==
    \E r \in 1..MaxRuns :
        /\ runs[r].pc = "ended"
        /\ ~runs[r].stopped
        /\ Len(runs[r].unprocessed) = 2
        /\ Len(processedData) = 1
        /\ processedData[1].fileId = runs[r].unprocessed[2].id
        /\ \A q \in 1..MaxRuns : q # r => runs[q].pc = "idle"

\* runProcessing and stopProcessing where every processFile call settles in
\* the end
SpecSettling ==
    /\ InitApp
    /\ [][Next]_vars
    /\ \A r \in 1..MaxRuns :
          WF_vars(\E outcome \in {"ok", "error", "quota"} :
                     ProcessFileSettles(r, outcome))

\* no run is inside its loop
NoRunActive == \A r \in 1..MaxRuns : runs[r].pc # "awaiting"

\* C29: every run that awaits processFile ends, and whenever no run is
\* active the queue is empty
C29_RunsEndAndQueueEmpties ==
    /\ \A r \in 1..MaxRuns :
          (runs[r].pc = "awaiting") ~> (runs[r].pc = "ended")
    /\ [](NoRunActive => processingQueue = <<>>)

\* C29 witness: all the runs have ended, one of them stopped while active,
\* another after its files failed, and the queue is empty
C29_EndedStoppedAndFailed ==
    /\ \A r \in 1..MaxRuns : runs[r].pc = "ended"
    /\ \E r \in 1..MaxRuns : runs[r].stopped
    /\ \E r \in 1..MaxRuns :
          /\ ~runs[r].stopped
          /\ \A k \in 1..Len(runs[r].unprocessed) :
                ~IsProcessed(processedData, runs[r].unprocessed[k])
    /\ processingQueue = <<>>

(***************************************************************************)
(* Import harness: the two ways a ProcessedContent gets into processedData:*)
(* runProcessing, processFile now answered with a response text, and the   *)
(* manual import dialog.                                                   *)
(***************************************************************************)
\* the most manual imports followed
MaxImports == 1

\* the texts generateContent answers with: a transcript with markers, a text
\* of two paragraphs without any, white space, a transcript inside a fence,
\* a marker line of boilerplate, and a fence with nothing inside
ResponseTexts ==
    << AcceptedLines[1] \o <<"\n">> \o AcceptedLines[2],
       <<"U", "m", " ", "t", "e", "x", "t", "o", ".", "\n", " ", "\n",
         "O", "u", "t", "r", "o", ".">>,
       <<" ", "\n">>,
       <<"bq", "bq", "bq", "t", "x", "t", "\n">> \o AcceptedLines[1]
           \o <<"\n", "bq", "bq", "bq">>,
       BoilerMarkers[1] \o <<" ">> \o inaudivel,
       <<"bq", "bq", "bq", "\n", "bq", "bq", "bq">> >>

\* what is typed as the name and as the text of a manual import
ManualNames == << <<"n", "o", "t", "a">> >>

ManualTexts ==
    << AcceptedLines[1],
       <<"U", "m", " ", "t", "e", "x", "t", "o", ".">>,
       <<"U", "m", " ", "t", "e", "x", "t", "o", ".", "\n", "\n",
         "O", "u", "t", "r", "o", ".">> >>

InitImport ==
    /\ AppIdle
    /\ ImportIdle
    /\ CleanIdle
    /\ SanIdle
    /\ ReportIdle
    /\ ParseIdle

\* processFile resolves or rejects for run r, generateContent having
\* answered with responseTxt
ProcessFileResponds(r, responseTxt) ==
    /\ runs[r].pc = "awaiting"
    /\ \E res \in {processFile(runs[r].unprocessed[runs[r].idx], responseTxt)} :
          IF res.ok THEN SettleWith(r, "ok", res.content)
          ELSE SettleWith(r, "error", <<>>)

\* a click on the button that opens the manual import dialog
OpenManualImport ==
    /\ ~isManualImportOpen
    /\ Len(importedFiles) < MaxImports
    /\ isManualImportOpen' = TRUE
    /\ UNCHANGED <<manualName, manualText, importedFiles, cleanVars, sanVars,
                   appVars, reportVars, parseVars>>

\* the name typed into the dialog
TypeManualName(name) ==
    /\ isManualImportOpen
    /\ manualName # name
    /\ manualName' = name
    /\ UNCHANGED <<manualText, isManualImportOpen, importedFiles, cleanVars,
                   sanVars, appVars, reportVars, parseVars>>

\* the text pasted into the dialog
TypeManualText(txt) ==
    /\ isManualImportOpen
    /\ manualText # txt
    /\ manualText' = txt
    /\ UNCHANGED <<manualName, isManualImportOpen, importedFiles, cleanVars,
                   sanVars, appVars, reportVars, parseVars>>

\* handleManualImport: nothing happens without a name and a text; else a
\* virtual file is added and its ProcessedContent stored
HandleManualImport ==
    /\ isManualImportOpen
    /\ manualName # <<>>
    /\ manualText # <<>>
    /\ LET id == NumFiles + Len(importedFiles) + 1
       IN  /\ importedFiles' =
                 Append(importedFiles,
                        [id |-> id, name |-> manualName, type |-> "TEXT",
                         category |-> "TESTIMONY", folder |-> "Manual",
                         isVirtual |-> TRUE])
           /\ processedData' =
                 Append(processedData,
                        ProcessedContentOf(id, manualName,
                                           sanitizeTranscript(manualText)))
    /\ isManualImportOpen' = FALSE
    /\ manualName' = <<>>
    /\ manualText' = <<>>
    /\ UNCHANGED <<processingQueue, abortProcessingRef, runs, cleanVars,
                   sanVars, reportVars, parseVars>>

NextImport ==
    \/ \E scope \in Scopes : RunProcessing(1, scope)
    \/ \E responseTxt \in {ResponseTexts[i] : i \in 1..Len(ResponseTexts)} :
          ProcessFileResponds(1, responseTxt)
    \/ StopProcessing
    \/ OpenManualImport
    \/ \E name \in {ManualNames[i] : i \in 1..Len(ManualNames)} :
          TypeManualName(name)
    \/ \E txt \in {ManualTexts[i] : i \in 1..Len(ManualTexts)} :
          TypeManualText(txt)
    \/ HandleManualImport

SpecImport == InitImport /\ [][NextImport]_vars

\* C26: every ProcessedContent in processedData has at least one segment
\* (every text imported or answered that is stored is non-blank)
C26_StoredContentHasSegments ==
    \A i \in 1..Len(processedData) : Len(processedData[i].segments) >= 1

(***************************************************************************)
(* Report harness: analyzeFactsFromEvidence called with the processed      *)
(* evidence (or none) and answered with a response made of an optional     *)
(* introduction, fact blocks in the requested format, and an optional      *)
(* conclusion.                                                             *)
(***************************************************************************)
\* the most fact blocks in a response
MaxBlocks == 2

\* the number of segments of the audio source
AudioSegments == 8

\* the number of pages of the document source
DocPages == 3

\* seconds between two segments of the audio source
SegmentGap == 5

audioName == <<"a", ".", "m", "p", "3">>

docName == <<"b", ".", "p", "d", "f">>

\* processedData: a testimony with a segment every SegmentGap seconds and a
\* document with one segment per page
Sources ==
    << [fileId |-> "a", fileName |-> audioName,
        segments |-> [i \in 1..AudioSegments |->
            [timestamp |-> Pad2(((i - 1) * SegmentGap) \div 60) \o <<":">>
                               \o Pad2(((i - 1) * SegmentGap) % 60),
             seconds |-> (i - 1) * SegmentGap,
             text |-> <<"s">> \o Decimal(i)]]],
       [fileId |-> "b", fileName |-> docName,
        segments |-> [i \in 1..DocPages |->
            [timestamp |-> <<"P", "a'", "g", " ">> \o Decimal(i),
             seconds |-> i,
             text |-> <<"p">> \o Decimal(i)]]] >>

\* fileMetadata
FileMetadata ==
    << [id |-> "a", category |-> "TESTIMONY"],
       [id |-> "b", category |-> "OTHER"] >>

\* facts
Facts ==
    << [id |-> <<"f", "1">>, text |-> <<"P", "a", "g", "o", "u", ".">>],
       [id |-> <<"f", "2">>, text |-> <<"A", "s", "s", "i", "n", "o", "u", ".">>] >>

\* the ID lines of a block; the first is none
IdLines ==
    << <<>>,
       <<"\n", "I", "D", ":", " ", "f", "1", "\n">>,
       <<"\n", "I", "D", ":", " ", "f", "2", "\n">> >>

\* the status parts of a block; the first is none
StatusParts ==
    << <<>>,
       STATUS \o <<" ", "C", "o", "n", "f", "i", "r", "m", "a", "d", "o", " ">> \o END_STATUS,
       STATUS \o <<" ", "I", "n", "c", "o", "n", "c", "l", "u", "s", "i", "v", "o", " ">> \o END_STATUS,
       STATUS \o <<" ", "T", "a", "l", "v", "e", "z", " ">> \o END_STATUS,
       STATUS \o <<" ", "N", "a~", "o", " ", "M", "e", "n", "c", "i", "o", "n", "a",
          "d", "o", " ">> \o END_STATUS >>

\* the evidence parts of a block; the first is none
EvidenceParts ==
    << <<>>,
       EVIDENCES \o <<"\n", "-", " ", "[", "a", ".", "m", "p", "3", " ", "@", " ", "0",
          "0", ":", "0", "5", "]", " ", "\"", "x", "\"", "\n">> \o END_EVIDENCES,
       EVIDENCES \o <<"\n", "-", " ", "[", "b", ".", "p", "d", "f", " ", "@", " ", "P",
          "a'", "g", " ", "2", "]", "\n">> \o END_EVIDENCES,
       EVIDENCES \o <<"\n", "-", " ", "[", "a", ".", "m", "p", "3", " ", "@", " ", "0",
          "0", ":", "1", "0", ",", " ", "0", "1", ":", "0", "0", "]",
          "\n">> \o END_EVIDENCES,
       EVIDENCES \o <<"\n", "-", " ", "[", "c", ".", "m", "p", "3", " ", "@", " ", "0",
          "0", ":", "0", "5", "]", "\n">> \o END_EVIDENCES >>

\* the kinds of block: which ID line, status part and evidence part
BlockKinds ==
    << [id |-> 2, status |-> 2, ev |-> 2],
       [id |-> 3, status |-> 3, ev |-> 3],
       [id |-> 2, status |-> 1, ev |-> 1],
       [id |-> 1, status |-> 2, ev |-> 2],
       [id |-> 3, status |-> 4, ev |-> 4],
       [id |-> 2, status |-> 5, ev |-> 5] >>

END_FACT == <<"[", "[", "E", "N", "D", "_", "F", "A", "C", "T", "]", "]">>

BlockText(b) ==
    FACT \o IdLines[BlockKinds[b].id] \o StatusParts[BlockKinds[b].status]
         \o <<"\n">> \o EvidenceParts[BlockKinds[b].ev] \o <<"\n">> \o END_FACT
         \o <<"\n">>

RECURSIVE BlocksText(_, _)
BlocksText(bs, n) ==
    IF n = 0 THEN <<>> ELSE BlocksText(bs, n - 1) \o BlockText(bs[n])

Intros == << <<>>, <<"S", "e", "m", " ", "f", "a", "c", "t", "o", "s", ".", "\n">> >>

Conclusions == << <<>>, CONCLUSION \o <<" ", "F", "i", "m", ".", " ">> \o END_CONCLUSION >>

\* the response texts
Responses ==
    {Intros[i] \o BlocksText(bs, Len(bs)) \o Conclusions[c] :
        i \in 1..Len(Intros), c \in 1..Len(Conclusions),
        bs \in UNION {[1..n -> 1..Len(BlockKinds)] : n \in 0..MaxBlocks}}

InitReport ==
    /\ reportData \in {<<>>, Sources}
    /\ responseText \in Responses
    /\ report = NoReport
    /\ reportError = ""
    /\ reportStage = "called"
    /\ cite = NoCite
    /\ CleanIdle
    /\ SanIdle
    /\ AppIdle
    /\ ParseIdle
    /\ ImportIdle

\* the call up to the request, which needs data and facts
Analyze ==
    /\ reportStage = "called"
    /\ IF Len(reportData) = 0 \/ Len(Facts) = 0
       THEN /\ reportStage' = "threw"
            /\ reportError' = "Sao necessarios dados e factos."
       ELSE /\ reportStage' = "awaiting"
            /\ reportError' = reportError
    /\ UNCHANGED <<reportData, responseText, report, cite, cleanVars, sanVars,
                   appVars, parseVars, importVars>>

\* generateContent resolves with responseText: the report is parsed from it
\* and returned
ResponseArrives ==
    /\ reportStage = "awaiting"
    /\ report' = ReportOf(responseText, reportData, Facts, FileMetadata)
    /\ reportStage' = "returned"
    /\ UNCHANGED <<reportData, responseText, reportError, cite, cleanVars,
                   sanVars, appVars, parseVars, importVars>>

\* generateContent rejects: the error is wrapped and thrown
RequestFails ==
    /\ reportStage = "awaiting"
    /\ reportStage' = "threw"
    /\ reportError' = "Erro na analise"
    /\ UNCHANGED <<reportData, responseText, report, cite, cleanVars, sanVars,
                   appVars, parseVars, importVars>>

NextReport == Analyze \/ ResponseArrives \/ RequestFails

SpecReport == InitReport /\ [][NextReport]_vars

\* C4: no report with an empty list of results is returned for a non-empty
\* response: a response that yields no FactAnalysis raises an error instead
C4_NoEmptyReport ==
    (reportStage = "returned" /\ responseText # <<>>)
        => Len(report.results) > 0

\* C7: the status of every emitted FactAnalysis is one of the four values of
\* FactStatus
C7_StatusInEnum ==
    reportStage = "returned" =>
        \A i \in 1..Len(report.results) : report.results[i].status \in FactStatus

\* C25: no two entries of the results of a returned report have the same
\* factId
C25_OneResultPerFact ==
    reportStage = "returned" =>
        \A i, j \in 1..Len(report.results) :
            report.results[i].factId = report.results[j].factId => i = j

(***************************************************************************)
(* Report harness with text after [[END_FACT]]: the response is one fact   *)
(* block, a text that follows its [[END_FACT]], and optionally a second    *)
(* block; `cite` names the three.                                          *)
(***************************************************************************)
\* what may follow [[END_FACT]]: nothing, a remark, an ID line, a status
\* part, an evidence part
Trailings ==
    << <<>>,
       <<"N", "o", "t", "a", ".", "\n">>,
       IdLines[3],
       StatusParts[3] \o <<"\n">>,
       EvidenceParts[3] \o <<"\n">> >>

TrailingShapes ==
    [block : 1..Len(BlockKinds), trailing : 1..Len(Trailings),
     next : 0..Len(BlockKinds)]

\* the response, with or without the text after [[END_FACT]]
TrailingResponse(c, withTrailing) ==
    BlockText(c.block)
        \o (IF withTrailing THEN Trailings[c.trailing] ELSE <<>>)
        \o (IF c.next = 0 THEN <<>> ELSE BlockText(c.next))

InitReportTrailing ==
    /\ cite \in TrailingShapes
    /\ reportData \in {<<>>, Sources}
    /\ responseText = TrailingResponse(cite, TRUE)
    /\ report = NoReport
    /\ reportError = ""
    /\ reportStage = "called"
    /\ CleanIdle
    /\ SanIdle
    /\ AppIdle
    /\ ParseIdle
    /\ ImportIdle

SpecReportTrailing == InitReportTrailing /\ [][NextReport]_vars

\* C23: the text between a block's [[END_FACT]] and the next [[FACT]] adds
\* nothing to the report: the results are those of the response without it
C23_NothingReadPastEndFact ==
    reportStage = "returned" =>
        report.results =
            ReportOf(TrailingResponse(cite, FALSE), reportData, Facts,
                     FileMetadata).results

(***************************************************************************)
(* Citation harness: analyzeFactsFromEvidence answered with one fact block *)
(* whose evidence holds a marker [ref @ timestamps], described by `cite`,   *)
(* followed by a marker of the document.  The testimony has one segment per *)
(* second, the document one segment for every other page.                   *)
(***************************************************************************)
\* the greatest position a marker cites
MaxTarget == 10

\* the most timestamps listed in a marker
MaxStamps == 2

CiteSources ==
    << [fileId |-> "a", fileName |-> audioName,
        segments |-> [i \in 1..AudioSegments |->
            [timestamp |-> <<"0", "0", ":">> \o Pad2(i - 1),
             seconds |-> i - 1,
             text |-> <<"s">> \o Decimal(i)]]],
       [fileId |-> "b", fileName |-> docName,
        segments |-> [i \in 1..DocPages |->
            [timestamp |-> <<"P", "a'", "g", " ">> \o Decimal((2 * i) - 1),
             seconds |-> (2 * i) - 1,
             text |-> <<"p">> \o Decimal(i)]]] >>

\* processedData in its two orders
Corpora == << CiteSources, <<CiteSources[2], CiteSources[1]>> >>

\* the file references of a marker: the exact names, a name in capitals, a
\* letter both names contain, a text that contains a name, a name of no
\* source, and nothing
Refs ==
    << audioName,
       <<"A", ".", "M", "P", "3">>,
       docName,
       <<"P">>,
       <<"x", "b", ".", "p", "d", "f", "x">>,
       <<"c", ".", "w", "a", "v">>,
       <<>> >>

Cites ==
    [ref : 1..Len(Refs), order : 1..Len(Corpora), t : 0..MaxTarget,
     n : 1..MaxStamps, page : BOOLEAN]

\* the position of the i-th timestamp of the marker
TargetOf(c, i) == (c.t + (3 * (i - 1))) % (MaxTarget + 1)

\* a position written as a time or as a page
StampOf(t, page) ==
    IF page THEN <<"P", "a'", "g", " ">> \o Decimal(t)
    ELSE Pad2(t \div 60) \o <<":">> \o Pad2(t % 60)

RECURSIVE StampList(_, _)
\* the first n timestamps of the marker, separated by ", "
StampList(c, n) ==
    IF n = 1 THEN StampOf(TargetOf(c, 1), c.page)
    ELSE StampList(c, n - 1) \o <<",", " ">> \o StampOf(TargetOf(c, n), c.page)

\* the response text
CiteResponse(c) ==
    FACT \o IdLines[2] \o StatusParts[2] \o <<"\n">> \o EVIDENCES
         \o <<"\n", "-", " ", "[">> \o Refs[c.ref] \o <<" ", "@", " ">>
         \o StampList(c, c.n) \o <<"]", " ", "\"", "x", "\"">>
         \o <<"\n", "-", " ", "[">> \o docName
         \o <<" ", "@", " ", "P", "a'", "g", " ", "1", "]", "\n">>
         \o END_EVIDENCES \o <<"\n">> \o END_FACT \o <<"\n">>

InitCite ==
    /\ cite \in Cites
    /\ reportData = Corpora[cite.order]
    /\ responseText = CiteResponse(cite)
    /\ report = NoReport
    /\ reportError = ""
    /\ reportStage = "called"
    /\ CleanIdle
    /\ SanIdle
    /\ AppIdle
    /\ ParseIdle
    /\ ImportIdle

SpecCite == InitCite /\ [][NextReport]_vars

\* the citations of the fact, and those the marker described by `cite` made
\* (all but the one of the marker that follows it)
AllCitations == report.results[1].citations

OwnCitations == SubSeq(AllCitations, 1, Len(AllCitations) - 1)

\* hay contains needle, letters compared without regard to case
ContainsCI(hay, needle) ==
    \E i \in 0..(Len(hay) - Len(needle)) :
        \A k \in 1..Len(needle) : EqCI(hay[i + k], needle[k])

\* the sources whose name contains the reference or is contained in it
CiteHits ==
    {i \in 1..Len(reportData) :
        \/ ContainsCI(reportData[i].fileName, Refs[cite.ref])
        \/ ContainsCI(Refs[cite.ref], reportData[i].fileName)}

\* the marker resolves, to a testimony / to a document
CiteOfTestimony ==
    reportStage = "returned" /\ CiteHits # {}
        /\ reportData[Min(CiteHits)].fileId = "a"

CiteOfDocument ==
    reportStage = "returned" /\ CiteHits # {}
        /\ reportData[Min(CiteHits)].fileId = "b"

CiteSegments == reportData[Min(CiteHits)].segments

\* the distance of segment i from position t
Distance(i, t) ==
    IF CiteSegments[i].seconds >= t THEN CiteSegments[i].seconds - t
    ELSE t - CiteSegments[i].seconds

RECURSIVE SpaceJoined(_, _, _)
\* the texts of segments a..b, a single space between two of them
SpaceJoined(segs, a, b) ==
    IF a > b THEN <<>>
    ELSE IF a = b THEN segs[b].text
    ELSE SpaceJoined(segs, a, b - 1) \o <<" ">> \o segs[b].text

\* C12: the marker resolves to the first source, in the order of
\* processedData, whose name contains the reference or is contained in it,
\* letter case ignored; when there is none the marker yields no citation and
\* the markers after it are still parsed
C12_FirstMatchingSource ==
    reportStage = "returned" =>
        /\ Len(report.results) = 1
        /\ Len(AllCitations) >= 1
        /\ AllCitations[Len(AllCitations)].fileName = docName
        /\ IF CiteHits = {} THEN OwnCitations = <<>>
           ELSE /\ OwnCitations # <<>>
                /\ \A k \in 1..Len(OwnCitations) :
                      /\ OwnCitations[k].fileId = reportData[Min(CiteHits)].fileId
                      /\ OwnCitations[k].fileName
                             = reportData[Min(CiteHits)].fileName

\* C12 witness: a reference that both names contain has resolved to the
\* document, which is first in processedData
C12_AmbiguousTakesFirst ==
    /\ reportStage = "returned"
    /\ Cardinality(CiteHits) = 2
    /\ reportData[1].fileName = docName
    /\ OwnCitations # <<>>
    /\ OwnCitations[1].fileName = docName

\* C13 as claimed: for a testimony, when some segment is at most 2 seconds
\* from the cited position, the text is an excerpt around such a segment
C13_WithinTwoInclusive ==
    CiteOfTestimony =>
        \A k \in 1..Len(OwnCitations) :
            LET t == TargetOf(cite, k)
                near == {i \in 1..Len(CiteSegments) : Distance(i, t) <= 2}
            IN  near # {} =>
                    \E c \in near, a \in 1..Len(CiteSegments),
                       b \in 1..Len(CiteSegments) :
                        /\ a <= c /\ c <= b
                        /\ OwnCitations[k].text = SpaceJoined(CiteSegments, a, b)

\* C13 amended: for a testimony, a segment matches when it is less than 2
\* seconds from the cited position; the excerpt begins one segment before
\* the first matching segment (or at it, when it is the first of all), and
\* when no segment matches the text is "Texto indisponivel"
C13_WithinLessThanTwo ==
    CiteOfTestimony =>
        \A k \in 1..Len(OwnCitations) :
            LET t == TargetOf(cite, k)
                near == {i \in 1..Len(CiteSegments) : Distance(i, t) < 2}
            IN  IF near = {} THEN OwnCitations[k].text = textoIndisponivel
                ELSE \E b \in Min(near)..Len(CiteSegments) :
                        OwnCitations[k].text =
                            SpaceJoined(CiteSegments, Max({1, Min(near) - 1}), b)

\* C13 witness: a marker of two positions; three segments are less than 2
\* seconds from the first and the excerpt begins one segment before the first
\* of them; the last segment is exactly 2 seconds from the second position,
\* whose text is "Texto indisponivel"
C13_FirstMatchAndNoMatch ==
    /\ CiteOfTestimony
    /\ cite.n = 2
    /\ TargetOf(cite, 1) = 6
    /\ OwnCitations[1].text = SpaceJoined(CiteSegments, 5, Len(CiteSegments))
    /\ TargetOf(cite, 2) = 9
    /\ CiteSegments[Len(CiteSegments)].seconds = 7
    /\ OwnCitations[2].text = textoIndisponivel

\* C14 as claimed: the excerpt runs from one segment before the matching
\* segment through six segments after it, clipped at the ends of the list
C14_OneBeforeSixAfter ==
    CiteOfTestimony =>
        \A k \in 1..Len(OwnCitations) :
            LET t == TargetOf(cite, k)
                near == {i \in 1..Len(CiteSegments) : Distance(i, t) < 2}
            IN  near # {} =>
                    OwnCitations[k].text =
                        SpaceJoined(CiteSegments, Max({1, Min(near) - 1}),
                                    Min({Len(CiteSegments), Min(near) + 6}))

\* C14 amended: the excerpt runs from one segment before the matching segment
\* through five segments after it, clipped at the ends of the list, the texts
\* joined with single spaces
C14_OneBeforeFiveAfter ==
    CiteOfTestimony =>
        \A k \in 1..Len(OwnCitations) :
            LET t == TargetOf(cite, k)
                near == {i \in 1..Len(CiteSegments) : Distance(i, t) < 2}
            IN  near # {} =>
                    OwnCitations[k].text =
                        SpaceJoined(CiteSegments, Max({1, Min(near) - 1}),
                                    Min({Len(CiteSegments), Min(near) + 5}))

\* C14 witness: the matching segment is the second, and the excerpt is the
\* first seven segments of more than seven
C14_SevenSegments ==
    /\ CiteOfTestimony
    /\ TargetOf(cite, 1) = 2
    /\ Len(CiteSegments) > 7
    /\ OwnCitations[1].text = SpaceJoined(CiteSegments, 1, 7)

\* C15: for a document the text is that of the one segment closest to the
\* cited position, the earliest of those equally close, however far it is
C15_ClosestSegmentOnly ==
    CiteOfDocument =>
        \A k \in 1..Len(OwnCitations) :
            LET t == TargetOf(cite, k)
            IN  \E j \in 1..Len(CiteSegments) :
                    /\ \A i \in 1..Len(CiteSegments) :
                          Distance(j, t) <= Distance(i, t)
                    /\ \A i \in 1..(j - 1) : Distance(i, t) > Distance(j, t)
                    /\ OwnCitations[k].text = CiteSegments[j].text

\* C15 witness: page 2 is cited, pages 1 and 3 are equally close, and the
\* text is that of page 1; and a page far beyond the last still has a text
C15_TieTakesEarlier ==
    /\ CiteOfDocument
    /\ cite.n = 2
    /\ TargetOf(cite, 1) = 2
    /\ OwnCitations[1].text = CiteSegments[1].text
    /\ OwnCitations[2].text # textoIndisponivel

\* C16: a marker of n timestamps whose file resolves yields n citations, one
\* per timestamp in the order listed, all of the same file
C16_OneCitationPerTimestamp ==
    (reportStage = "returned" /\ CiteHits # {}) =>
        /\ Len(OwnCitations) = cite.n
        /\ \A k \in 1..Len(OwnCitations) :
              /\ OwnCitations[k].timestamp = StampOf(TargetOf(cite, k), cite.page)
              /\ OwnCitations[k].fileId = OwnCitations[1].fileId
              /\ OwnCitations[k].fileName = OwnCitations[1].fileName

\* C16 witness: a marker of two timestamps has made two citations
C16_TwoCitations ==
    /\ reportStage = "returned"
    /\ CiteHits # {}
    /\ cite.n = 2
    /\ Len(OwnCitations) = 2
    /\ OwnCitations[1].timestamp # OwnCitations[2].timestamp

\* no segment of the cited source is within the tolerance of position t
NothingNear(t) ==
    \A i \in 1..Len(CiteSegments) : Distance(i, t) >= Tolerance

\* C30: for a testimony, a cited position that no segment is within the
\* tolerance of still gets its citation, at its place among the citations of
\* the marker, with the text "Texto indisponivel" and not the text of a
\* segment
C30_PlaceholderWhenNothingNear ==
    CiteOfTestimony =>
        /\ Len(OwnCitations) = cite.n
        /\ \A k \in 1..cite.n :
              NothingNear(TargetOf(cite, k)) =>
                  /\ OwnCitations[k].timestamp
                         = StampOf(TargetOf(cite, k), cite.page)
                  /\ OwnCitations[k].seconds = TargetOf(cite, k)
                  /\ OwnCitations[k].text = textoIndisponivel
                  /\ \A i \in 1..Len(CiteSegments) :
                        OwnCitations[k].text # CiteSegments[i].text

\* C30 witness: a testimony with segments, cited at a single position that
\* is two seconds or more from all of them
C30_PlaceholderEmitted ==
    /\ CiteOfTestimony
    /\ Len(CiteSegments) > 0
    /\ cite.n = 1
    /\ NothingNear(TargetOf(cite, 1))
    /\ Len(OwnCitations) = 1
    /\ OwnCitations[1].text = textoIndisponivel

(***************************************************************************)
(* Citation harness on sources whose texts repeat: a testimony whose       *)
(* segments say "um." and "um" in turn (no two neighbours alike), and a    *)
(* document with a page that holds a run of one word.                      *)
(***************************************************************************)
LoopSources ==
    << [fileId |-> "a", fileName |-> audioName,
        segments |-> [i \in 1..AudioSegments |->
            [timestamp |-> <<"0", "0", ":">> \o Pad2(i - 1),
             seconds |-> i - 1,
             text |-> IF i % 2 = 1 THEN <<"u", "m", ".">> ELSE <<"u", "m">>]]],
       [fileId |-> "b", fileName |-> docName,
        segments |-> [i \in 1..DocPages |->
            [timestamp |-> <<"P", "a'", "g", " ">> \o Decimal((2 * i) - 1),
             seconds |-> (2 * i) - 1,
             text |-> IF i = 2 THEN Run(mas, MinExtraReps + 1, <<" ">>)
                      ELSE <<"p">> \o Decimal(i)]]] >>

LoopCorpora == << LoopSources, <<LoopSources[2], LoopSources[1]>> >>

InitCiteLoops ==
    /\ cite \in Cites
    /\ reportData = LoopCorpora[cite.order]
    /\ responseText = CiteResponse(cite)
    /\ report = NoReport
    /\ reportError = ""
    /\ reportStage = "called"
    /\ CleanIdle
    /\ SanIdle
    /\ AppIdle
    /\ ParseIdle
    /\ ImportIdle

SpecCiteLoops == InitCiteLoops /\ [][NextReport]_vars

\* the excerpt assembled for position t: for a document the text of the
\* closest segment, for a testimony the window around the first segment less
\* than 2 seconds away, or the placeholder
ExcerptOf(t) ==
    IF reportData[Min(CiteHits)].fileId = "b"
    THEN CiteSegments[CHOOSE j \in 1..Len(CiteSegments) :
             /\ \A i \in 1..Len(CiteSegments) : Distance(j, t) <= Distance(i, t)
             /\ \A i \in 1..(j - 1) : Distance(i, t) > Distance(j, t)].text
    ELSE LET near == {i \in 1..Len(CiteSegments) : Distance(i, t) < 2}
         IN  IF near = {} THEN textoIndisponivel
             ELSE SpaceJoined(CiteSegments, Max({1, Min(near) - 1}),
                              Min({Len(CiteSegments), Min(near) + 5}))

\* C24: the text of every citation is the loop cleaner's result on the
\* excerpt assembled for it, for a testimony and for a document
C24_CitationTextCleaned ==
    (reportStage = "returned" /\ CiteHits # {}) =>
        \A k \in 1..Len(OwnCitations) :
            OwnCitations[k].text
                = cleanRepetitiveLoops(ExcerptOf(TargetOf(cite, k)))

(***************************************************************************)
(* parseSecondsSafe harness: the function applied to timestamps of each    *)
(* form (HH:MM:SS and MM:SS, with and without leading zeros, "Pag N",      *)
(* "Page N") and to texts without any digit.                               *)
(***************************************************************************)
\* every component from 0 to MaxField is tried
MaxField == 11

\* the values of a component: the small ones, and some of two and three digits
FieldValues == (0..MaxField) \cup {59, 60, 125}

\* texts that contain no digit
NoDigitTexts ==
    << <<>>,
       <<"g", "a", "r", "b", "a", "g", "e">>,
       <<":">>,
       <<"a", ":", "b">>,
       <<"x", ":", "y", ":", "z">>,
       <<"-", "-", ":", "-", "-">>,
       <<"P", "a'", "g">>,
       <<" ">> >>

StampForms ==
    [form : {"hms"}, h : FieldValues, m : FieldValues, s : FieldValues,
     pad : BOOLEAN]
        \cup [form : {"ms"}, m : FieldValues, s : FieldValues, pad : BOOLEAN]
        \cup [form : {"pag", "page"}, n : FieldValues]
        \cup [form : {"text"}, k : 1..Len(NoDigitTexts)]

\* a component written with or without a leading zero
Field(n, pad) == IF pad THEN Pad2(n) ELSE Decimal(n)

\* the timestamp text of a form
StampTextOf(f) ==
    IF f.form = "hms"
    THEN Field(f.h, f.pad) \o <<":">> \o Field(f.m, f.pad) \o <<":">>
             \o Field(f.s, f.pad)
    ELSE IF f.form = "ms"
    THEN Field(f.m, f.pad) \o <<":">> \o Field(f.s, f.pad)
    ELSE IF f.form = "pag" THEN <<"P", "a'", "g", " ">> \o Decimal(f.n)
    ELSE IF f.form = "page" THEN <<"P", "a", "g", "e", " ">> \o Decimal(f.n)
    ELSE NoDigitTexts[f.k]

InitParse ==
    /\ stampForm \in StampForms
    /\ stampText = StampTextOf(stampForm)
    /\ parsedSeconds = 0
    /\ parseStage = "input"
    /\ CleanIdle
    /\ SanIdle
    /\ AppIdle
    /\ ReportIdle
    /\ ImportIdle

\* parseSecondsSafe(timestamp)
ParseStamp ==
    /\ parseStage = "input"
    /\ parsedSeconds' = parseSecondsSafe(stampText)
    /\ parseStage' = "parsed"
    /\ UNCHANGED <<stampForm, stampText, cleanVars, sanVars, appVars, reportVars,
                   importVars>>

NextParse == ParseStamp

SpecParse == InitParse /\ [][NextParse]_vars

\* C17: parseSecondsSafe returns H*3600 + M*60 + S for HH:MM:SS, M*60 + S for
\* MM:SS, and N for "Pag N" and "Page N"
C17_SecondsOfEachForm ==
    parseStage = "parsed" =>
        /\ stampForm.form = "hms" =>
               parsedSeconds = (stampForm.h * 3600) + (stampForm.m * 60) + stampForm.s
        /\ stampForm.form = "ms" =>
               parsedSeconds = (stampForm.m * 60) + stampForm.s
        /\ stampForm.form \in {"pag", "page"} => parsedSeconds = stampForm.n

\* C17 witness: "01:02:03" has been parsed to 3723
C17_HmsParsed ==
    /\ parseStage = "parsed"
    /\ stampText = <<"0", "1", ":", "0", "2", ":", "0", "3">>
    /\ parsedSeconds = 3723

\* C18: for a text without any digit parseSecondsSafe returns 0, with or
\* without a colon in the text; the result is therefore never NaN
C18_ZeroWithoutDigits ==
    (parseStage = "parsed" /\ \A i \in 1..Len(stampText) : ~IsDigit(stampText[i]))
        => parsedSeconds = 0

====
